---------------------------- MODULE Spec2Model ----------------------------
(***************************************************************************)
(* HypeFinder scoring engine: ticker extraction and validation, the        *)
(* volume scorer, the sentiment scorer and the hype scorer that combines   *)
(* them into a ranked result list.                                         *)
(*                                                                         *)
(* Number representation.  The program computes with IEEE doubles.  Here   *)
(* every real-valued quantity is a fixed-point integer counting            *)
(* thousandths (Scale = 1000): 1.2 is 1200, a sentiment of -2.5 is -2500.  *)
(* Products and quotients are rounded down to the next thousandth.         *)
(*                                                                         *)
(* Time.  Wall-clock time and post timestamps are whole hours on one       *)
(* axis; hours_ago = clock - hour.                                         *)
(*                                                                         *)
(* Text.  A post's text is a string over letters, digits, "$", "@", "#"    *)
(* and single spaces; a word is a maximal run without a space.  The        *)
(* regular expressions of the program are modelled by what they match on   *)
(* such text.                                                              *)
(***************************************************************************)
EXTENDS Integers, Sequences, FiniteSets, TLC

(***************************************************************************)
(* Fixed-point arithmetic                                                  *)
(***************************************************************************)
Scale == 10 * 10 * 10

Mul(a, b) == (a * b) \div Scale

Div(a, b) == (a * Scale) \div b

Min(a, b) == IF a <= b THEN a ELSE b

Max(a, b) == IF a >= b THEN a ELSE b

Abs(a) == IF a < 0 THEN -a ELSE a

RECURSIVE SumSeq(_)
SumSeq(s) == IF s = <<>> THEN 0 ELSE Head(s) + SumSeq(Tail(s))

RECURSIVE MaxSeq(_)
MaxSeq(s) == IF Len(s) = 1 THEN Head(s) ELSE Max(Head(s), MaxSeq(Tail(s)))

RECURSIVE MinSeq(_)
MinSeq(s) == IF Len(s) = 1 THEN Head(s) ELSE Min(Head(s), MinSeq(Tail(s)))

\* Integer square root (rounded down) by bisection, for variance ** 0.5.
RECURSIVE SqrtBetween(_, _, _)
SqrtBetween(n, lo, hi) ==
  IF hi - lo <= 1 THEN lo
  ELSE LET mid == (lo + hi) \div 2
       IN IF mid * mid <= n THEN SqrtBetween(n, mid, hi) ELSE SqrtBetween(n, lo, mid)

Sqrt(n) == SqrtBetween(n, 0, 46340)

Range(s) == { s[i] : i \in DOMAIN s }

(***************************************************************************)
(* Strings: str.upper, str.lower, str.isalpha, str.split, str.find         *)
(***************************************************************************)
UpperAlphabet == "ABCDEFGHIJKLMNOPQRSTUVWXYZ"

LowerAlphabet == "abcdefghijklmnopqrstuvwxyz"

DigitAlphabet == "0123456789"

Char(s, i) == SubSeq(s, i, i)

Chars(alphabet) == { Char(alphabet, i) : i \in 1..Len(alphabet) }

UpperLetters == Chars(UpperAlphabet)

LowerLetters == Chars(LowerAlphabet)

LetterChars == UpperLetters \cup LowerLetters

WordChars == LetterChars \cup Chars(DigitAlphabet) \cup {"_"}

IndexIn(alphabet, c) ==
  IF \E i \in 1..Len(alphabet) : Char(alphabet, i) = c
  THEN CHOOSE i \in 1..Len(alphabet) : Char(alphabet, i) = c
  ELSE 0

UpperChar(c) ==
  IF c \in LowerLetters THEN Char(UpperAlphabet, IndexIn(LowerAlphabet, c)) ELSE c

LowerChar(c) ==
  IF c \in UpperLetters THEN Char(LowerAlphabet, IndexIn(UpperAlphabet, c)) ELSE c

RECURSIVE Upper(_)
Upper(s) ==
  IF Len(s) = 0 THEN ""
  ELSE IF Len(s) = 1 THEN UpperChar(s)
  ELSE Upper(SubSeq(s, 1, Len(s) \div 2)) \o Upper(SubSeq(s, Len(s) \div 2 + 1, Len(s)))

RECURSIVE Lower(_)
Lower(s) ==
  IF Len(s) = 0 THEN ""
  ELSE IF Len(s) = 1 THEN LowerChar(s)
  ELSE Lower(SubSeq(s, 1, Len(s) \div 2)) \o Lower(SubSeq(s, Len(s) \div 2 + 1, Len(s)))

IsAlpha(s) == Len(s) > 0 /\ \A i \in 1..Len(s) : Char(s, i) \in LetterChars

StartsWith(s, p) == Len(s) >= Len(p) /\ SubSeq(s, 1, Len(p)) = p

EndsWith(s, p) == Len(s) >= Len(p) /\ SubSeq(s, Len(s) - Len(p) + 1, Len(s)) = p

RECURSIVE Ascending(_)
\* the positions str.find reports, in the order the loop appends them
Ascending(S) ==
  IF S = {} THEN <<>>
  ELSE LET least == CHOOSE p \in S : \A q \in S : p <= q
       IN <<least>> \o Ascending(S \ {least})

\* str.split(): the words of s, split at runs of spaces: each maximal run of
\* other characters, from its first to its last position
Split(s) ==
  LET first == { i \in 1..Len(s) : /\ Char(s, i) # " "
                                   /\ (i = 1 \/ Char(s, i - 1) = " ") }
      last == { i \in 1..Len(s) : /\ Char(s, i) # " "
                                  /\ (i = Len(s) \/ Char(s, i + 1) = " ") }
      from == Ascending(first)
      to == Ascending(last)
  IN [ k \in DOMAIN from |-> SubSeq(s, from[k], to[k]) ]

\* ' '.join(words)
RECURSIVE Join(_)
Join(words) ==
  IF words = <<>> THEN ""
  ELSE IF Len(words) = 1 THEN Head(words)
  ELSE Head(words) \o " " \o Join(Tail(words))

\* Every position (1-based) at which needle occurs in hay: the loop
\* pos = find(needle, start); start = pos + 1.
FindAll(hay, needle) ==
  IF Len(needle) = 0 THEN {}
  ELSE { p \in 1..(Len(hay) - Len(needle) + 1) :
           SubSeq(hay, p, p + Len(needle) - 1) = needle }

Contains(hay, needle) == FindAll(hay, needle) # {}

\* text[start:end] with Python's 0-based half-open bounds.
Slice(s, start, end) == SubSeq(s, start + 1, end)


(***************************************************************************)
(* State                                                                   *)
(***************************************************************************)
VARIABLES
  ticker_list,    \* what load_ticker_list() returned to TickerParser.__init__
  known_tickers,  \* TickerParser.known_tickers: set(load_ticker_list())
  hash_order,     \* this process's iteration order of a set of strings
  clock,          \* datetime.now(), in hours
  config,         \* the scoring configuration handed to HypeScorer
  posts,          \* the post batch of the current scan
  outcome,        \* "idle" | "returned" | "raised": how the last call ended
  called,         \* the clock and the hash order the last call ran under
  calls,          \* how many times the batch has been scored
  ticker_posts,   \* extract_tickers_from_posts(posts) of the last call
  filtered_ticker_posts, \* ... after the minimum-mentions filter
  volume_scores,  \* calculate_comprehensive_volume_score of the last call
  sentiment_scores, \* calculate_comprehensive_sentiment_score of the last call
  results,        \* the list the last call returned
  previous,       \* the call before the last one, on the same batch
  candidate,      \* the argument of the last is_valid_ticker call
  verdict,        \* what that call returned
  raw_scores,     \* the argument of the last normalize_scores call
  normalized,     \* what that call returned
  summary_arg,     \* the argument of the last get_scoring_summary call
  summary_result,        \* what that call returned
  text_arg,           \* the argument of the last calculate_keyword_sentiment call
  keyword_result, \* what that call returned
  ticker_arg,     \* the ticker argument of the last per-ticker call
  trend_result, \* what the last calculate_sentiment_trend call returned
  context_result,       \* what the last get_ticker_context call returned
  modifier_args,  \* the arguments of the last _apply_scoring_modifiers call
  modifier_result, \* what that call returned
  recency_result, \* what the last _calculate_recency_multiplier call returned
  sentiment_result, \* what the last per-ticker sentiment call returned
  extract_result, \* what the last extract_tickers_from_text call returned
  shared_group,   \* the TickerPostGroup two scorer tasks work on
  volume_task,    \* the Volume Scorer task: its position and its own maps
  sentiment_task  \* the Sentiment Scorer task: its position and its own map

\* the variables of the single-function calls and of the two scorer tasks
unit_vars == <<summary_arg, summary_result, text_arg, keyword_result, ticker_arg, trend_result,
               context_result, modifier_args, modifier_result, recency_result,
               sentiment_result, extract_result>>

task_vars == <<shared_group, volume_task, sentiment_task>>

vars == <<ticker_list, known_tickers, hash_order, clock, config, posts, outcome, called,
          calls, ticker_posts, filtered_ticker_posts, volume_scores, sentiment_scores,
          results, previous, candidate, verdict, raw_scores, normalized,
          unit_vars, task_vars>>

(***************************************************************************)
(* Inputs: the posts a scan can be handed, and the orders a process may    *)
(* iterate a set of ticker strings in.                                     *)
(***************************************************************************)
MaxPosts == 3

FirstHour == 6

MaxClock == 7

MaxCalls == 2

naive_early == "2024-01-01T02:00:00"

naive_late == "2024-01-01T04:00:00"

aware_late == "2024-01-01T04:00:00Z"

Post(text, source, engagement_score, timestamp) ==
  [text |-> text, source |-> source, engagement_score |-> engagement_score,
   timestamp |-> timestamp]

\* the posts a fetcher can deliver; "" is a missing timestamp
PostPool ==
  { Post("$GME $AMC buy", "reddit", 0, naive_early),
    Post("$GME bullish", "twitter", 0, naive_early),
    Post("$AMC buy", "reddit", 0, naive_early),
    Post("$GME crash", "reddit", 50, naive_late),
    Post("$GME bullish", "twitter", 0, aware_late),
    Post("$AMC buy", "twitter", 50, "soon"),
    Post("the market", "twitter", 0, "") }

TickerUniverse == {"GME", "AMC"}

\* the orders in which a process may iterate over a set of ticker strings
HashOrders ==
  { order \in [1..Cardinality(TickerUniverse) -> TickerUniverse] :
      Range(order) = TickerUniverse }

TextPool == { post.text : post \in PostPool }

TimestampPool == { post.timestamp : post \in PostPool }

\* A value that depends on a text or a timestamp alone is computed once for
\* the pool's texts and timestamps and looked up afterwards.
Memo(table, key, value) == IF key \in DOMAIN table THEN table[key] ELSE value

(***************************************************************************)
(* parser/ticker_parser.py: TickerParser                                   *)
(***************************************************************************)
RECURSIVE LetterRun(_, _)
\* The length of the run of capital letters of s that starts at position i.
LetterRun(s, i) ==
  IF i <= Len(s) /\ Char(s, i) \in UpperLetters THEN 1 + LetterRun(s, i + 1) ELSE 0

RECURSIVE WordRun(_, _)
\* The length of the run of word characters of s that starts at position i.
WordRun(s, i) ==
  IF i <= Len(s) /\ Char(s, i) \in WordChars THEN 1 + WordRun(s, i + 1) ELSE 0

\* The maximal runs of word characters of s (what lies between two "\b").
WordRuns(s) ==
  { SubSeq(s, i, i + WordRun(s, i) - 1) :
      i \in { j \in 1..Len(s) : /\ Char(s, j) \in WordChars
                                /\ (j = 1 \/ Char(s, j - 1) \notin WordChars) } }

\* The word-character run a word starts with, and the one it ends with.
LeadingRun(w) == SubSeq(w, 1, WordRun(w, 1))

RECURSIVE TrailingStart(_, _)
TrailingStart(w, i) ==
  IF i >= 1 /\ Char(w, i) \in WordChars THEN TrailingStart(w, i - 1) ELSE i + 1

TrailingRun(w) == SubSeq(w, TrailingStart(w, Len(w)), Len(w))

HasNonWordChar(w) == \E i \in 1..Len(w) : Char(w, i) \notin WordChars

MinTickerLen == 2

MaxTickerLen == 5

IsSymbol(run, lo, hi) == IsAlpha(run) /\ Upper(run) = run /\ Len(run) >= lo /\ Len(run) <= hi

\* r'\$([A-Z]{1,5})\b'
DollarMatches(text) ==
  { SubSeq(text, i + 1, i + LetterRun(text, i + 1)) :
      i \in { j \in 1..Len(text) :
                /\ Char(text, j) = "$"
                /\ LetterRun(text, j + 1) >= 1
                /\ LetterRun(text, j + 1) <= MaxTickerLen
                /\ LET after == j + LetterRun(text, j + 1) + 1
                   IN after > Len(text) \/ Char(text, after) \notin WordChars } }

StockWords == {"STOCK", "SHARE", "SHARES", "TICKER"}

TradeWords == {"BUY", "SELL", "LONG", "SHORT"}

\* re.findall over adjacent words, matches not overlapping: a match on words
\* i and i+1 ends inside word i+1, so the search goes on behind it.
RECURSIVE PairMatches(_, _, _)
PairMatches(words, i, ticker_first) ==
  IF i >= Len(words) THEN {}
  ELSE LET left  == TrailingRun(words[i])
           right == LeadingRun(words[i + 1])
           hit   == IF ticker_first
                    THEN IsSymbol(left, MinTickerLen, MaxTickerLen) /\ right \in StockWords
                    ELSE left \in TradeWords /\ IsSymbol(right, MinTickerLen, MaxTickerLen)
           next  == IF hit /\ ~HasNonWordChar(words[i + 1]) THEN i + 2 ELSE i + 1
       IN (IF hit THEN {IF ticker_first THEN left ELSE right} ELSE {})
            \cup PairMatches(words, next, ticker_first)

\* r'\b([A-Z]{2,5})\s+(?:stock|shares?|ticker)\b'
StockMatches(text) == PairMatches(Split(text), 1, TRUE)

\* r'\b(?:buy|sell|long|short)\s+([A-Z]{2,5})\b'
TradeMatches(text) == PairMatches(Split(text), 1, FALSE)

ticker_patterns(text) == DollarMatches(text) \cup StockMatches(text) \cup TradeMatches(text)

PairSuffixes == {"USD", "BTC", "ETH"}

CommonCrypto ==
  {"BTC", "ETH", "ADA", "DOT", "LINK", "LTC", "XRP", "BCH", "BNB", "SOL", "DOGE", "SHIB"}

\* r'\b([A-Z]{3,5})(?:USD|BTC|ETH)\b'
PairMatches4(text) ==
  { SubSeq(run, 1, Len(run) - 3) :
      run \in { r \in WordRuns(text) :
                  /\ IsSymbol(r, 6, 8)
                  /\ SubSeq(r, Len(r) - 2, Len(r)) \in PairSuffixes } }

\* r'\b(BTC|ETH|ADA|DOT|LINK|LTC|XRP|BCH|BNB|SOL|DOGE|SHIB)\b'
CryptoMatches(text) == WordRuns(text) \cap CommonCrypto

crypto_patterns(text) == PairMatches4(text) \cup CryptoMatches(text)

exclude_words ==
  {
    "ABOVE", "ACT", "ADD", "AFTER", "AGAIN", "AGO", "AHEAD", "AIR", "ALL",
    "ALSO", "ALWAYS", "AN", "AND", "ANIMAL", "ANSWER", "ANY", "ARE", "ARM",
    "AS", "ASK", "AT", "BACK", "BAD", "BASE", "BEACH", "BEEN", "BEFORE",
    "BEGAN", "BEGINNING", "BEING", "BETWEEN", "BIG", "BIRD", "BNB", "BODY",
    "BOOK", "BOTH", "BOY", "BTC", "BUILD", "BUT", "BUY", "BY", "CALLED",
    "CALLS", "CAME", "CAN", "CAR", "CARE", "CARRY", "CAUSE", "CHANGE",
    "CHILDREN", "CITY", "COLOR", "COME", "COUNTRY", "COVER", "COVID",
    "CROSS", "CUT", "DAY", "DD", "DID", "DIFFER", "DOES", "DOG", "DOT",
    "DRAW", "DURING", "DYING", "EARTH", "EASE", "EAT", "END", "ENOUGH",
    "ETH", "EVEN", "EVER", "EVERY", "EXAMPLE", "EYE", "FACE", "FAMILY",
    "FAR", "FARM", "FATHER", "FEEL", "FEET", "FEW", "FIELD", "FIND", "FISH",
    "FOLLOW", "FOOD", "FOR", "FORM", "FOUND", "FOUR", "FRIEND", "FROM",
    "FUN", "GET", "GIRL", "GIVE", "GOD", "GOOD", "GOT", "GREAT", "GROUP",
    "GROW", "HAD", "HAND", "HARD", "HAVE", "HEAD", "HEAR", "HELP", "HER",
    "HERE", "HIGH", "HIM", "HOME", "HORSE", "HOUSE", "HOW", "IDEA", "ILL",
    "IN", "ITS", "JUST", "KEEP", "KIND", "KNOW", "LAND", "LARGE", "LAST",
    "LATE", "LEARN", "LEAVE", "LEFT", "LESS", "LET", "LETTER", "LIFE",
    "LIGHT", "LIKE", "LINE", "LINK", "LIST", "LITTLE", "LIVE", "LONG",
    "LOOK", "LOW", "LYC", "MADE", "MAIN", "MAKE", "MAN", "MANY", "MARK",
    "MAY", "ME", "MEAN", "MEN", "MIGHT", "MILE", "MOONS", "MORE", "MOTHER",
    "MOUNTAIN", "MOVE", "MUCH", "MUSIC", "MUST", "MY", "NAME", "NEAR",
    "NEED", "NEVER", "NEW", "NEXT", "NICE", "NORTH", "NOT", "NOTHING", "NOW",
    "OF", "OFF", "OFTEN", "OLD", "ONCE", "ONE", "ONLY", "OPEN", "OUR",
    "OVER", "OWN", "PAGE", "PAPER", "PART", "PER", "PICTURE", "PLACE",
    "PLAIN", "PLANT", "PLAY", "POINT", "POSSIBLE", "POST", "PUT", "RAIN",
    "RANGE", "RATES", "READ", "READY", "REAL", "REALLY", "RED", "RIGHT",
    "RIVER", "ROOM", "ROUND", "RTA", "RUN", "SAME", "SAW", "SAY", "SCHOOL",
    "SEA", "SECOND", "SEE", "SEEM", "SELF", "SENTENCE", "SET", "SEVERAL",
    "SHE", "SHOULD", "SHOW", "SIDE", "SIT", "SIX", "SMALL", "SOME", "SOON",
    "SPELL", "STAND", "START", "STARTED", "STATE", "STILL", "STOP", "STORY",
    "STUDY", "STUFF", "SUCH", "SUN", "SURE", "TAKE", "TALK", "TECH", "TELL",
    "TERM", "THAN", "THE", "THEM", "THEY", "THINK", "THIS", "THOSE",
    "THOUGH", "THOUGHT", "THREE", "THROUGH", "TIME", "TO", "TOGETHER", "TOO",
    "TOOK", "TREE", "TRUMP", "TRY", "TURN", "UNDER", "UNTIL", "US", "USE",
    "USING", "USUAL", "VALID", "VERY", "VISAS", "WALK", "WANT", "WAS",
    "WATCH", "WAY", "WELL", "WENT", "WERE", "WHAT", "WHEN", "WHERE", "WHILE",
    "WHITE", "WHO", "WHY", "WILL", "WOOD", "WORK", "WORLD", "WRITE", "YEAR",
    "YES", "YET", "YOU", "YOUNG", "YOUR"
  }

common_false_positives ==
  {
    "ABOVE", "ACT", "ADD", "AFTER", "AGAIN", "AGO", "AIR", "ALL", "ALSO",
    "ALWAYS", "AND", "ANIMAL", "ANSWER", "ANY", "ARE", "ARM", "ASK", "BACK",
    "BAD", "BASE", "BEEN", "BEFORE", "BEGAN", "BEGINNING", "BEING",
    "BETWEEN", "BIG", "BIRD", "BODY", "BOOK", "BOTH", "BOY", "BUILD", "BUT",
    "CALLED", "CALLS", "CAME", "CAN", "CAR", "CARE", "CARRY", "CAUSE",
    "CHANGE", "CHEAP", "CHILDREN", "CITY", "COLOR", "COME", "COUNTRY",
    "COVER", "CROSS", "CUT", "DAY", "DID", "DIFFER", "DOES", "DOG", "DRAW",
    "DURING", "EARTH", "EASE", "EAT", "END", "ENOUGH", "EVEN", "EVER",
    "EVERY", "EXAMPLE", "EYE", "FACE", "FAMILY", "FAR", "FARM", "FATHER",
    "FEEL", "FEET", "FEW", "FIELD", "FIND", "FISH", "FOLLOW", "FOOD", "FOR",
    "FORM", "FOUND", "FOUR", "FRIEND", "FROM", "FUN", "GET", "GIRL", "GIVE",
    "GOD", "GOOD", "GOT", "GREAT", "GROUP", "GROW", "HAD", "HAND", "HARD",
    "HAUL", "HAVE", "HEAD", "HEAR", "HELP", "HER", "HERE", "HIGH", "HIM",
    "HOME", "HORSE", "HOUSE", "HOW", "IDEA", "ILL", "INTO", "ITS", "JUST",
    "KEEP", "KIND", "KNOW", "LAND", "LARGE", "LAST", "LATE", "LEARN",
    "LEAVE", "LEFT", "LET", "LETTER", "LIFE", "LIGHT", "LIKE", "LINE",
    "LIST", "LITTLE", "LIVE", "LONG", "LOOK", "LOW", "MADE", "MAIN", "MAKE",
    "MAN", "MANY", "MARK", "MAY", "ME", "MEAN", "MEN", "MIGHT", "MILE",
    "MORE", "MOTHER", "MOUNTAIN", "MOVE", "MUCH", "MUSIC", "MUST", "MY",
    "NAME", "NEAR", "NEED", "NEVER", "NEW", "NEXT", "NORTH", "NOT",
    "NOTHING", "NOW", "OFF", "OFTEN", "OLD", "ONCE", "ONE", "ONLY", "OPEN",
    "OUR", "OVER", "OWN", "PAGE", "PAPER", "PART", "PER", "PICTURE", "PLACE",
    "PLAIN", "PLANT", "PLAY", "POINT", "POSSIBLE", "PUT", "RAIN", "READ",
    "READY", "REAL", "REALLY", "RED", "RIGHT", "RIVER", "ROOM", "ROUND",
    "RUN", "SAME", "SAW", "SAY", "SCHOOL", "SEA", "SECOND", "SEE", "SEEM",
    "SELF", "SENTENCE", "SET", "SEVERAL", "SHE", "SHOULD", "SHOW", "SIDE",
    "SIT", "SIX", "SMALL", "SOME", "SOON", "SPELL", "STAND", "START",
    "STARTED", "STATE", "STILL", "STOP", "STORY", "STUDY", "SUCH", "SUN",
    "SURE", "TAILS", "TAKE", "TALK", "TELL", "TERM", "THAN", "THAT", "THE",
    "THEM", "THEY", "THINK", "THIS", "THOSE", "THOUGH", "THOUGHT", "THREE",
    "THROUGH", "TIME", "TOGETHER", "TOO", "TOOK", "TREE", "TRUMP", "TRY",
    "TURN", "UNDER", "UNTIL", "US", "USE", "USUAL", "VERY", "WALK", "WANT",
    "WAS", "WATCH", "WAY", "WELL", "WENT", "WERE", "WHAT", "WHEN", "WHERE",
    "WHILE", "WHITE", "WHO", "WHY", "WILL", "WITH", "WOOD", "WORK", "WORLD",
    "WRITE", "YEAR", "YES", "YET", "YOU", "YOUNG", "YOUR"
  }

exchange_suffixes == {".TO", ".V", ".L", ".PA", ".DE", ".HK"}

RECURSIVE LStripDollar(_)
LStripDollar(t) == IF StartsWith(t, "$") THEN LStripDollar(SubSeq(t, 2, Len(t))) ELSE t

clean_ticker(ticker) ==
  IF ticker = "" THEN ""
  ELSE LET t == LStripDollar(Upper(ticker))
       IN IF \E suffix \in exchange_suffixes : EndsWith(t, suffix)
          THEN LET suffix == CHOOSE x \in exchange_suffixes : EndsWith(t, x)
               IN SubSeq(t, 1, Len(t) - Len(suffix))
          ELSE t

KnownListThreshold == 100

\* Fault variant: the second vocabulary (common_false_positives) is not consulted.
is_valid_ticker_one_vocabulary(ticker) ==
  IF ticker = "" THEN FALSE
  ELSE IF Len(ticker) < MinTickerLen \/ Len(ticker) > MaxTickerLen THEN FALSE
  ELSE IF ~IsAlpha(ticker) THEN FALSE
  ELSE IF ticker \in exclude_words THEN FALSE
  ELSE IF Cardinality(known_tickers) > KnownListThreshold THEN ticker \in known_tickers
  ELSE TRUE

is_valid_ticker(ticker) ==
  IF ticker = "" THEN FALSE
  ELSE IF Len(ticker) < MinTickerLen \/ Len(ticker) > MaxTickerLen THEN FALSE
  ELSE IF ~IsAlpha(ticker) THEN FALSE
  ELSE IF ticker \in exclude_words THEN FALSE
  ELSE IF ticker \in common_false_positives THEN FALSE
  ELSE IF Cardinality(known_tickers) > KnownListThreshold THEN ticker \in known_tickers
  ELSE TRUE

\* The distinct valid tickers of a text, not yet in list order.
\* the matches of every pattern on text.upper()
PatternMatches(text) == ticker_patterns(Upper(text)) \cup crypto_patterns(Upper(text))

pattern_memo == [ text \in TextPool |-> PatternMatches(text) ]

ExtractedTickers(text) ==
  IF text = "" THEN {}
  ELSE LET extracted_tickers == Memo(pattern_memo, text, PatternMatches(text))
       IN { clean_ticker(t) : t \in { x \in extracted_tickers : is_valid_ticker(clean_ticker(x)) } }

\* list(set(valid_tickers)): the order is the set's iteration order, which
\* follows the string hashes of the running process.
SetToList(S) == SelectSeq(hash_order, LAMBDA t : t \in S)

extract_tickers_from_text(text) == SetToList(ExtractedTickers(text))


(***************************************************************************)
(* A TickerPostGroup is a Python dict in insertion order: a sequence of    *)
(* entries [ticker, posts].                                                *)
(***************************************************************************)
Keys(group) == [ i \in DOMAIN group |-> group[i].ticker ]

KeySet(group) == { group[i].ticker : i \in DOMAIN group }

PostsOf(group, ticker) ==
  (CHOOSE e \in Range(group) : e.ticker = ticker).posts

RECURSIVE AddMentionsFirstOnly(_, _, _)
\* Fault variant: only the first ticker of a post gets the post.
AddMentionsFirstOnly(group, post, tickers) ==
  IF tickers = <<>> THEN group
  ELSE LET ticker == Head(tickers)
           post_with_ticker == [mentioned_ticker |-> ticker] @@ post
           at == { i \in DOMAIN group : group[i].ticker = ticker }
       IN IF at = {}
          THEN Append(group, [ticker |-> ticker, posts |-> <<post_with_ticker>>])
          ELSE [ i \in DOMAIN group |->
                   IF i \in at
                   THEN [group[i] EXCEPT !.posts = Append(@, post_with_ticker)]
                   ELSE group[i] ]

RECURSIVE AddMentions(_, _, _)
\* for ticker in tickers: append a tagged copy of the post under the ticker
AddMentions(group, post, tickers) ==
  IF tickers = <<>> THEN group
  ELSE LET ticker == Head(tickers)
           post_with_ticker == [mentioned_ticker |-> ticker] @@ post
           at == { i \in DOMAIN group : group[i].ticker = ticker }
           added ==
             IF at = {}
             THEN Append(group, [ticker |-> ticker, posts |-> <<post_with_ticker>>])
             ELSE [ i \in DOMAIN group |->
                      IF i \in at
                      THEN [group[i] EXCEPT !.posts = Append(@, post_with_ticker)]
                      ELSE group[i] ]
       IN AddMentions(added, post, Tail(tickers))

RECURSIVE GroupPosts(_, _)
GroupPosts(group, rest) ==
  IF rest = <<>> THEN group
  ELSE GroupPosts(AddMentions(group, Head(rest), extract_tickers_from_text(Head(rest).text)),
                  Tail(rest))

extract_tickers_from_posts(batch) == GroupPosts(<<>>, batch)

\* Fault variant: the tag is written to the post itself, not to a copy.
PostAfterTaggingInPlace(post, tickers) ==
  IF tickers = <<>> THEN post
  ELSE [mentioned_ticker |-> tickers[Len(tickers)]] @@ post

\* The caller's post record after the loop over its tickers: post.copy() makes
\* a new dict for every ticker and the tag is written to that dict.
PostAfterTagging(post, tickers) == post

\* the caller's list after extract_tickers_from_posts(batch)
CallerPosts(batch) ==
  [ i \in DOMAIN batch |->
      PostAfterTagging(batch[i], extract_tickers_from_text(batch[i].text)) ]

RECURSIVE Strip(_)
\* str.strip() on text without tabs or newlines
Strip(t) ==
  IF t = "" THEN ""
  ELSE IF Char(t, 1) = " " THEN Strip(SubSeq(t, 2, Len(t)))
  ELSE IF Char(t, Len(t)) = " " THEN Strip(SubSeq(t, 1, Len(t) - 1))
  ELSE t

\* the first position of needle in hay (0-based), -1 when there is none
Find(hay, needle) ==
  IF FindAll(hay, needle) = {} THEN -1
  ELSE (CHOOSE p \in FindAll(hay, needle) : \A q \in FindAll(hay, needle) : p <= q) - 1

RECURSIVE get_ticker_context(_, _, _)
get_ticker_context(list, ticker, window) ==
  IF list = <<>> THEN <<>>
  ELSE LET post_text == Head(list).text
           ticker_pos == Find(Upper(post_text), ticker)
           start == Max(0, ticker_pos - window)
           end == Min(Len(post_text), ticker_pos + Len(ticker) + window)
       IN (IF ticker_pos # -1 THEN <<Strip(Slice(post_text, start, end))>> ELSE <<>>)
            \o get_ticker_context(Tail(list), ticker, window)

(***************************************************************************)
(* Timestamps: datetime.fromisoformat(timestamp_str.replace('Z', '+00:00'))*)
(* on "YYYY-MM-DDTHH:MM:SS" with an optional "+HH:MM" or "-HH:MM" offset.  *)
(* The hour axis counts hours from the first day of the month.             *)
(***************************************************************************)
IsDigits(s) == \A i \in 1..Len(s) : Char(s, i) \in Chars(DigitAlphabet)

Num2(s) == 10 * (IndexIn(DigitAlphabet, Char(s, 1)) - 1) + (IndexIn(DigitAlphabet, Char(s, 2)) - 1)

RECURSIVE ReplaceZ(_)
ReplaceZ(s) ==
  IF Len(s) = 0 THEN ""
  ELSE (IF Char(s, 1) = "Z" THEN "+00:00" ELSE Char(s, 1)) \o ReplaceZ(SubSeq(s, 2, Len(s)))

NaiveShape(s) ==
  /\ Len(s) = 19
  /\ IsDigits(SubSeq(s, 1, 4)) /\ Char(s, 5) = "-"
  /\ IsDigits(SubSeq(s, 6, 7)) /\ Char(s, 8) = "-"
  /\ IsDigits(SubSeq(s, 9, 10)) /\ Char(s, 11) = "T"
  /\ IsDigits(SubSeq(s, 12, 13)) /\ Char(s, 14) = ":"
  /\ IsDigits(SubSeq(s, 15, 16)) /\ Char(s, 17) = ":"
  /\ IsDigits(SubSeq(s, 18, 19))
  /\ Num2(SubSeq(s, 6, 7)) \in 1..12 /\ Num2(SubSeq(s, 9, 10)) \in 1..31
  /\ Num2(SubSeq(s, 12, 13)) < 24 /\ Num2(SubSeq(s, 15, 16)) < 60
  /\ Num2(SubSeq(s, 18, 19)) < 60

OffsetShape(s) ==
  /\ Len(s) = 6
  /\ Char(s, 1) \in {"+", "-"}
  /\ IsDigits(SubSeq(s, 2, 3)) /\ Char(s, 4) = ":" /\ IsDigits(SubSeq(s, 5, 6))
  /\ Num2(SubSeq(s, 2, 3)) < 24 /\ Num2(SubSeq(s, 5, 6)) < 60

\* [ok, aware, hour, utc]: hour is the clock-face reading, utc the instant.
fromisoformat(s) ==
  LET head   == SubSeq(s, 1, 19)
      tail   == SubSeq(s, 20, Len(s))
      hour   == 24 * (Num2(SubSeq(s, 9, 10)) - 1) + Num2(SubSeq(s, 12, 13))
      offset == (IF Char(tail, 1) = "-" THEN -1 ELSE 1) * Num2(SubSeq(tail, 2, 3))
  IN IF Len(s) = 19 /\ NaiveShape(s)
     THEN [ok |-> TRUE, aware |-> FALSE, hour |-> hour, utc |-> hour]
     ELSE IF Len(s) = 25 /\ NaiveShape(head) /\ OffsetShape(tail)
     THEN [ok |-> TRUE, aware |-> TRUE, hour |-> hour, utc |-> hour - offset]
     ELSE [ok |-> FALSE, aware |-> FALSE, hour |-> 0, utc |-> 0]

\* if timestamp_str: try: fromisoformat(...) except: (not parsed)
timestamp_memo == [ stamp \in TimestampPool |-> fromisoformat(ReplaceZ(stamp)) ]

ParseTimestamp(post) ==
  IF post.timestamp = ""
  THEN [ok |-> FALSE, aware |-> FALSE, hour |-> 0, utc |-> 0]
  ELSE Memo(timestamp_memo, post.timestamp, fromisoformat(ReplaceZ(post.timestamp)))

\* post_time.replace(tzinfo=None) keeps the clock-face reading;
\* hours_ago = (current_time - post_time).total_seconds() / 3600.0
HoursAgo(post, current_time) == current_time - ParseTimestamp(post).hour

(***************************************************************************)
(* scorer/volume_scorer.py: VolumeScorer                                   *)
(***************************************************************************)
DefaultSourceWeights == [twitter |-> 1000, reddit |-> 1200, reddit_comment |-> 800]

\* self.source_weights.get(source, 1.0)
SourceWeight(table, source) == IF source \in DOMAIN table THEN table[source] ELSE Scale

\* math.pow(base, hours), hours a whole number of either sign
RECURSIVE Pow(_, _)
Pow(base, hours) ==
  IF hours = 0 THEN Scale
  ELSE IF hours > 0 THEN Mul(Pow(base, hours - 1), base)
  ELSE Div(Pow(base, hours + 1), base)

calculate_raw_volume(group) ==
  [ ticker \in KeySet(group) |-> Len(PostsOf(group, ticker)) * Scale ]

EngagementMultiplier(post) ==
  Scale + (post.engagement_score * config.engagement_weight) \div 100

calculate_weighted_volume(group) ==
  [ ticker \in KeySet(group) |->
      LET post_score(post) ==
            Mul(SourceWeight(config.source_weights, post.source), EngagementMultiplier(post))
          list == PostsOf(group, ticker)
      IN SumSeq([ i \in DOMAIN list |-> post_score(list[i]) ]) ]

calculate_time_weighted_volume(group) ==
  [ ticker \in KeySet(group) |->
      LET time_weight(post) ==
            IF ParseTimestamp(post).ok
            THEN Pow(config.time_decay_factor, HoursAgo(post, clock))
            ELSE Scale
          post_score(post) ==
            Mul(Mul(SourceWeight(config.source_weights, post.source),
                    EngagementMultiplier(post)),
                time_weight(post))
          list == PostsOf(group, ticker)
      IN SumSeq([ i \in DOMAIN list |-> post_score(list[i]) ]) ]

velocity_window_hours == 4

\* fault variant: a post without a parsable timestamp counts as recent
calculate_velocity_score_untimed(group) ==
  [ ticker \in KeySet(group) |->
      LET list == PostsOf(group, ticker)
          recent_posts == { i \in DOMAIN list :
                              \/ ~ParseTimestamp(list[i]).ok
                              \/ HoursAgo(list[i], clock) <= velocity_window_hours }
      IN (Cardinality(recent_posts) * Scale) \div velocity_window_hours ]

calculate_velocity_score(group) ==
  [ ticker \in KeySet(group) |->
      LET list == PostsOf(group, ticker)
          recent_posts == { i \in DOMAIN list :
                              /\ ParseTimestamp(list[i]).ok
                              /\ HoursAgo(list[i], clock) <= velocity_window_hours }
      IN (Cardinality(recent_posts) * Scale) \div velocity_window_hours ]

\* fault variant: a single hour bucket is given its ratio instead of 0
SpikeRatioOfAnyBuckets(post_times) ==
  LET timed == { i \in DOMAIN post_times : post_times[i].ok }
      buckets == { post_times[i].hour : i \in timed }
      count(b) == Cardinality({ i \in timed : post_times[i].hour = b })
      total == Cardinality(timed)
      peak == CHOOSE c \in { count(b) : b \in buckets } :
                \A b \in buckets : count(b) <= c
  IN IF Cardinality(buckets) < 1 THEN 0
     ELSE (peak * Cardinality(buckets) * Scale) \div total

\* max(counts) / (sum(counts) / len(counts)) over the hour buckets of the
\* parsed timestamps post_times
SpikeRatio(post_times) ==
  LET timed == { i \in DOMAIN post_times : post_times[i].ok }
      buckets == { post_times[i].hour : i \in timed }
      count(b) == Cardinality({ i \in timed : post_times[i].hour = b })
      total == Cardinality(timed)
      peak == CHOOSE c \in { count(b) : b \in buckets } :
                \A b \in buckets : count(b) <= c
  IN IF Cardinality(buckets) < 2 THEN 0
     ELSE (peak * Cardinality(buckets) * Scale) \div total

\* the parsed timestamps of a post list
PostTimes(list) == [ i \in DOMAIN list |-> ParseTimestamp(list[i]) ]

calculate_spike_detection(group) ==
  [ ticker \in KeySet(group) |-> SpikeRatio(PostTimes(PostsOf(group, ticker))) ]

SourcesOf(list) == { list[i].source : i \in DOMAIN list }

\* Fault variant: the multiplier grows by 15% per additional platform (the
\* hype scorer's bonus) instead of 20%.
cross_platform_boost_15(group) ==
  [ ticker \in KeySet(group) |->
      Scale + (Cardinality(SourcesOf(PostsOf(group, ticker))) - 1) * 150 ]

calculate_cross_platform_boost(group) ==
  [ ticker \in KeySet(group) |->
      Scale + (Cardinality(SourcesOf(PostsOf(group, ticker))) - 1) * 200 ]

\* Fault variant: a tie maps every value to 0.0 instead of 1.0.
normalize_scores_tie_zero(scores) ==
  IF DOMAIN scores = {} THEN scores
  ELSE LET values == { scores[t] : t \in DOMAIN scores }
           max_score == CHOOSE v \in values : \A w \in values : w <= v
           min_score == CHOOSE v \in values : \A w \in values : w >= v
       IN IF max_score = min_score
          THEN [ t \in DOMAIN scores |-> 0 ]
          ELSE [ t \in DOMAIN scores |-> Div(scores[t] - min_score, max_score - min_score) ]

normalize_scores(scores) ==
  IF DOMAIN scores = {} THEN scores
  ELSE LET values == { scores[t] : t \in DOMAIN scores }
           max_score == CHOOSE v \in values : \A w \in values : w <= v
           min_score == CHOOSE v \in values : \A w \in values : w >= v
       IN IF max_score = min_score
          THEN [ t \in DOMAIN scores |-> Scale ]
          ELSE [ t \in DOMAIN scores |-> Div(scores[t] - min_score, max_score - min_score) ]

component_weights ==
  [raw |-> 200, weighted |-> 250, time_weighted |-> 250, velocity |-> 150, spike |-> 150]

calculate_comprehensive_volume_score(group) ==
  LET norm_raw      == normalize_scores(calculate_raw_volume(group))
      norm_weighted == normalize_scores(calculate_weighted_volume(group))
      norm_time     == normalize_scores(calculate_time_weighted_volume(group))
      norm_velocity == normalize_scores(calculate_velocity_score(group))
      norm_spike    == normalize_scores(calculate_spike_detection(group))
      cross_platform == calculate_cross_platform_boost(group)
  IN [ ticker \in KeySet(group) |->
         Mul(Mul(norm_raw[ticker], component_weights.raw)
               + Mul(norm_weighted[ticker], component_weights.weighted)
               + Mul(norm_time[ticker], component_weights.time_weighted)
               + Mul(norm_velocity[ticker], component_weights.velocity)
               + Mul(norm_spike[ticker], component_weights.spike),
             cross_platform[ticker]) ]

get_volume_metrics(group) ==
  [ ticker \in KeySet(group) |->
      [ raw_mentions         |-> calculate_raw_volume(group)[ticker],
        weighted_volume      |-> calculate_weighted_volume(group)[ticker],
        time_weighted_volume |-> calculate_time_weighted_volume(group)[ticker],
        velocity_per_hour    |-> calculate_velocity_score(group)[ticker],
        spike_ratio          |-> calculate_spike_detection(group)[ticker],
        cross_platform_boost |-> calculate_cross_platform_boost(group)[ticker],
        total_engagement     |->
          LET list == PostsOf(group, ticker)
          IN SumSeq([ i \in DOMAIN list |-> list[i].engagement_score ]),
        platform_distribution |->
          LET list == PostsOf(group, ticker)
          IN [ src \in SourcesOf(list) |->
                 Cardinality({ i \in DOMAIN list : list[i].source = src }) ] ] ]


(***************************************************************************)
(* parser/text_cleaner.py: TextCleaner                                     *)
(* On the modelled alphabet no URL, HTML entity, e-mail address, phone     *)
(* number or run of punctuation occurs, so those substitutions change      *)
(* nothing and are left out.                                               *)
(***************************************************************************)
\* in the dict's order, which is the order the substitutions run in
slang_replacements ==
  << <<"hodl", "hold">>,
     <<"stonks", "stocks">>,
     <<"tendies", "profits">>,
     <<"diamond hands", "holding strong">>,
     <<"paper hands", "selling quickly">>,
     <<"moon", "price increase">>,
     <<"lambo", "profits">>,
     <<"ape", "investor">>,
     <<"retard", "investor">>,
     <<"autist", "investor">>,
     <<"yolo", "risky investment">>,
     <<"fomo", "fear of missing out">>,
     <<"dd", "due diligence">>,
     <<"gains", "profits">>,
     <<"loss porn", "investment losses">>,
     <<"bag holder", "stuck investor">>,
     <<"squeeze", "price surge">>,
     <<"rocket", "price increase">>,
     <<"brrrr", "money printing">>,
     <<"guh", "loss reaction">> >>

noise_words ==
  << "lol", "lmao", "omg", "wtf", "tbh", "imo", "imho", "afaik", "tldr", "tl;dr", "fyi", "btw", "idk", "ngl", "smh" >>

\* excessive_whitespace.sub(' ', text).strip()
CollapseSpaces(text) == Join(Split(text))

clean_basic(text) == IF text = "" THEN "" ELSE CollapseSpaces(text)

BoundaryBefore(s, i) == i = 1 \/ Char(s, i - 1) \notin WordChars

BoundaryAfter(s, i) == i >= Len(s) \/ Char(s, i + 1) \notin WordChars

RECURSIVE ReplaceWordFrom(_, _, _, _)
\* re.sub(r'\b' + re.escape(key) + r'\b', replacement, s)
ReplaceWordFrom(s, i, key, replacement) ==
  IF i > Len(s) THEN ""
  ELSE IF /\ i + Len(key) - 1 <= Len(s)
          /\ SubSeq(s, i, i + Len(key) - 1) = key
          /\ BoundaryBefore(s, i)
          /\ BoundaryAfter(s, i + Len(key) - 1)
       THEN replacement \o ReplaceWordFrom(s, i + Len(key), key, replacement)
       ELSE Char(s, i) \o ReplaceWordFrom(s, i + 1, key, replacement)

ReplaceWord(s, key, replacement) ==
  IF Contains(s, key) THEN ReplaceWordFrom(s, 1, key, replacement) ELSE s

RECURSIVE RemoveMentionsFrom(_, _)
\* mention_pattern.sub('', text), the pattern r'@\w+'
RemoveMentionsFrom(s, i) ==
  IF i > Len(s) THEN ""
  ELSE IF Char(s, i) = "@" /\ WordRun(s, i + 1) >= 1
       THEN RemoveMentionsFrom(s, i + 1 + WordRun(s, i + 1))
       ELSE Char(s, i) \o RemoveMentionsFrom(s, i + 1)

\* hashtag_replacer: "#tag" becomes "$TAG" when TAG is one of the text's
\* "$" tickers, else "tag"
hashtag_replacer(tag_text, tickers) ==
  IF Upper(tag_text) \in tickers THEN "$" \o Upper(tag_text) ELSE tag_text

RECURSIVE ReplaceHashtagsFrom(_, _, _)
\* hashtag_pattern.sub(hashtag_replacer, text), the pattern r'#\w+'
ReplaceHashtagsFrom(s, i, tickers) ==
  IF i > Len(s) THEN ""
  ELSE IF Char(s, i) = "#" /\ WordRun(s, i + 1) >= 1
       THEN hashtag_replacer(SubSeq(s, i + 1, i + WordRun(s, i + 1)), tickers)
              \o ReplaceHashtagsFrom(s, i + 1 + WordRun(s, i + 1), tickers)
       ELSE Char(s, i) \o ReplaceHashtagsFrom(s, i + 1, tickers)

clean_social_media(text) ==
  IF text = "" THEN ""
  ELSE LET basic == clean_basic(text)
           tickers == DollarMatches(Upper(basic))
           no_mentions == IF Contains(basic, "@") THEN RemoveMentionsFrom(basic, 1)
                          ELSE basic
           no_hashtags == IF Contains(no_mentions, "#")
                          THEN ReplaceHashtagsFrom(no_mentions, 1, tickers)
                          ELSE no_mentions
       IN CollapseSpaces(no_hashtags)

RECURSIVE ApplySlang(_, _)
\* the loop over slang_replacements.items(), in dict order from entry k on
ApplySlang(text_lower, k) ==
  IF k > Len(slang_replacements) THEN text_lower
  ELSE LET replaced == ReplaceWord(text_lower, slang_replacements[k][1],
                                   slang_replacements[k][2])
       IN IF Len(replaced) >= 0 THEN ApplySlang(replaced, k + 1) ELSE replaced

normalize_financial_slang(text) ==
  IF text = "" THEN "" ELSE ApplySlang(Lower(text), 1)

RECURSIVE DropNoise(_, _)
\* the loop over noise_words, in list order from word k on; the text reaches
\* remove_noise_words in lower case, so re.IGNORECASE adds nothing
DropNoise(text, k) ==
  IF k > Len(noise_words) THEN text
  ELSE LET removed == ReplaceWord(text, noise_words[k], "")
       IN IF Len(removed) >= 0 THEN DropNoise(removed, k + 1) ELSE removed

remove_noise_words(text) == CollapseSpaces(DropNoise(text, 1))

preserve_financial_context(text) == IF text = "" THEN "" ELSE clean_social_media(text)

clean_for_sentiment_analysis(text) ==
  IF text = "" THEN ""
  ELSE preserve_financial_context(
         remove_noise_words(normalize_financial_slang(clean_social_media(text))))

(***************************************************************************)
(* scorer/sentiment_scorer.py: SentimentScorer                             *)
(***************************************************************************)
positive_keywords ==
  "moon" :> 3000 @@ "rocket" :> 3000 @@ "bullish" :> 2500 @@
  "bull" :> 2000 @@ "buy" :> 2000 @@ "long" :> 2000 @@ "calls" :> 1500 @@
  "pump" :> 2000 @@ "diamond hands" :> 2500 @@ "hold" :> 1500 @@
  "hodl" :> 2000 @@ "breakout" :> 2000 @@ "rally" :> 2000 @@
  "surge" :> 2500 @@ "gains" :> 2000 @@ "profit" :> 2000 @@ "up" :> 1500 @@
  "rise" :> 1500 @@ "green" :> 1500 @@ "winning" :> 2000 @@
  "success" :> 2000 @@ "strong" :> 1800 @@ "solid" :> 1800 @@
  "good" :> 1500 @@ "great" :> 2000 @@ "excellent" :> 2500 @@
  "amazing" :> 2500 @@ "love" :> 2000 @@ "bullrun" :> 2500 @@
  "mooning" :> 3000 @@ "lambo" :> 2500 @@ "tendies" :> 2000 @@
  "printing" :> 2000 @@ "brrr" :> 1500 @@ "positive" :> 1500 @@
  "optimistic" :> 1800 @@ "confident" :> 1800 @@ "potential" :> 1200 @@
  "promising" :> 1800 @@ "opportunity" :> 1500 @@ "undervalued" :> 1800 @@
  "cheap" :> 1200 @@ "dip" :> 1000 @@ "support" :> 1200 @@
  "bounce" :> 1500 @@ "recovery" :> 1800 @@ "upgrade" :> 1800 @@
  "beat" :> 1500 @@ "outperform" :> 2000 @@ "momentum" :> 1500 @@
  "volume" :> 1200 @@ "interest" :> 1000

negative_keywords ==
  "crash" :> -3000 @@ "dump" :> -2500 @@ "bearish" :> -2500 @@
  "bear" :> -2000 @@ "sell" :> -2000 @@ "short" :> -2000 @@
  "puts" :> -1500 @@ "collapse" :> -3000 @@ "paper hands" :> -2000 @@
  "panic" :> -2500 @@ "fear" :> -2000 @@ "drop" :> -2000 @@
  "fall" :> -2000 @@ "plunge" :> -2500 @@ "tank" :> -2500 @@
  "losses" :> -2000 @@ "loss" :> -2000 @@ "down" :> -1500 @@
  "red" :> -1500 @@ "bad" :> -1500 @@ "terrible" :> -2500 @@
  "awful" :> -2500 @@ "hate" :> -2000 @@ "disaster" :> -3000 @@
  "dead" :> -2500 @@ "rekt" :> -2500 @@ "rug" :> -3000 @@ "scam" :> -3000 @@
  "fraud" :> -3000 @@ "ponzi" :> -3000 @@ "negative" :> -1500 @@
  "pessimistic" :> -1800 @@ "concerned" :> -1500 @@ "worried" :> -1800 @@
  "doubt" :> -1500 @@ "uncertain" :> -1200 @@ "overvalued" :> -1800 @@
  "expensive" :> -1200 @@ "risky" :> -1500 @@ "resistance" :> -1200 @@
  "rejection" :> -1500 @@ "decline" :> -1800 @@ "downgrade" :> -1800 @@
  "miss" :> -1500 @@ "underperform" :> -2000 @@ "weak" :> -1500 @@
  "poor" :> -1800 @@ "disappointing" :> -2000

intensifiers ==
  "very" :> 1500 @@ "extremely" :> 2000 @@ "really" :> 1300 @@
  "super" :> 1800 @@ "incredibly" :> 2000 @@ "absolutely" :> 1800 @@
  "totally" :> 1500 @@ "completely" :> 1800 @@ "highly" :> 1500 @@
  "massively" :> 2000

diminishers ==
  "slightly" :> 500 @@ "somewhat" :> 700 @@ "little" :> 600 @@
  "bit" :> 600 @@ "kind of" :> 700 @@ "sort of" :> 700 @@ "maybe" :> 500 @@
  "possibly" :> 600

negators ==
  {"barely", "hardly", "neither", "never", "no", "nobody", "none", "not", "nothing", "nowhere", "rarely", "scarcely"}


\* words[start_pos:end_pos] around position (1-based here)
ContextWords(words, position) ==
  LET window_size == 3
  IN SubSeq(words, Max(1, position - window_size), Min(Len(words), position + window_size))

RECURSIVE ApplyStrength(_, _)
\* for word in context_words: intensifiers and diminishers multiply
ApplyStrength(score, context_words) ==
  IF context_words = <<>> THEN score
  ELSE LET word == Head(context_words)
           next == IF word \in DOMAIN intensifiers THEN Mul(score, intensifiers[word])
                   ELSE IF word \in DOMAIN diminishers THEN Mul(score, diminishers[word])
                   ELSE score
       IN ApplyStrength(next, Tail(context_words))

\* Fault variant: every negator of the window flips the sign again, so two
\* negators cancel.
apply_context_modifiers_each_negator(words, position, base_score) ==
  LET context_words == ContextWords(words, position)
      flips == Cardinality({ i \in DOMAIN context_words : context_words[i] \in negators })
      RECURSIVE Flip(_, _)
      Flip(score, n) == IF n = 0 THEN score ELSE Flip(-Mul(score, 800), n - 1)
  IN ApplyStrength(Flip(base_score, flips), context_words)

apply_context_modifiers(words, position, base_score) ==
  LET context_words == ContextWords(words, position)
      negated == \E i \in DOMAIN context_words : context_words[i] \in negators
      modified_score == IF negated THEN -Mul(base_score, 800) ELSE base_score
  IN ApplyStrength(modified_score, context_words)

RECURSIVE KeywordSum(_, _)
\* the while loop of calculate_keyword_sentiment from position i on
KeywordSum(words, i) ==
  IF i > Len(words) THEN 0
  ELSE LET word == words[i]
           two_word_phrase == IF i < Len(words) THEN word \o " " \o words[i + 1] ELSE ""
       IN IF i < Len(words) /\ two_word_phrase \in DOMAIN positive_keywords
          THEN apply_context_modifiers(words, i, positive_keywords[two_word_phrase])
                 + KeywordSum(words, i + 2)
          ELSE IF i < Len(words) /\ two_word_phrase \in DOMAIN negative_keywords
          THEN apply_context_modifiers(words, i, negative_keywords[two_word_phrase])
                 + KeywordSum(words, i + 2)
          ELSE IF word \in DOMAIN positive_keywords
          THEN apply_context_modifiers(words, i, positive_keywords[word])
                 + KeywordSum(words, i + 1)
          ELSE IF word \in DOMAIN negative_keywords
          THEN apply_context_modifiers(words, i, negative_keywords[word])
                 + KeywordSum(words, i + 1)
          ELSE KeywordSum(words, i + 1)

\* fault variant: the normalised score is returned without the clamp
KeywordScoreUnclamped(words) ==
  LET word_count == Len(words)
      sentiment_score == KeywordSum(words, 1)
  IN IF word_count = 0 THEN 0
     ELSE IF word_count <= 10 THEN sentiment_score
     ELSE (sentiment_score * 10) \div word_count

\* calculate_keyword_sentiment once cleaned_text.split() is known
KeywordScore(words) ==
  LET word_count == Len(words)
      sentiment_score == KeywordSum(words, 1)
      normalized_score == IF word_count <= 10 THEN sentiment_score
                          ELSE (sentiment_score * 10) \div word_count
  IN IF word_count = 0 THEN 0
     ELSE Max(-5000, Min(5000, normalized_score))

calculate_keyword_sentiment(text) ==
  IF text = "" THEN 0
  ELSE KeywordScore(Split(Lower(clean_for_sentiment_analysis(text))))

\* TextBlob is a third-party library.  Its polarity is the mean polarity of
\* the words of the text found in its lexicon; the entries below are the
\* lexicon's for the words the sample texts use.
TextBlobLexicon ==
  "good" :> 700 @@ "great" :> 800 @@ "bad" :> -700 @@ "terrible" :> -1000 @@
  "amazing" :> 600 @@ "love" :> 500 @@ "awful" :> -1000

analyze_text_sentiment(text) ==
  LET words == Split(Lower(text))
      found == SelectSeq(words, LAMBDA w : w \in DOMAIN TextBlobLexicon)
      polarity(w) == TextBlobLexicon[w]
  IN IF found = <<>> THEN 0
     ELSE LET RECURSIVE Total(_)
              Total(ws) == IF ws = <<>> THEN 0 ELSE polarity(Head(ws)) + Total(Tail(ws))
          IN Total(found) \div Len(found)

calculate_std(values) ==
  IF Len(values) < 2 THEN 0
  ELSE LET mean == SumSeq(values) \div Len(values)
           squares == [ i \in DOMAIN values |-> (values[i] - mean) * (values[i] - mean) ]
           variance == SumSeq(squares) \div Len(values)
       IN Sqrt(variance)

keyword_memo == [ text \in TextPool |-> calculate_keyword_sentiment(text) ]

KeywordSentiment(text) == Memo(keyword_memo, text, calculate_keyword_sentiment(text))

textblob_memo == [ text \in TextPool |-> analyze_text_sentiment(text) ]

TextBlobPolarity(text) == Memo(textblob_memo, text, analyze_text_sentiment(text))

context_window == 100

\* fault variant: only the first occurrence of the ticker in a text is used
FindContextsFirstOnly(text, ticker) ==
  LET ticker_positions == Ascending(FindAll(Upper(text), Upper(ticker)))
  IN IF ticker_positions = <<>> THEN <<>>
     ELSE LET pos == ticker_positions[1] - 1
          IN << Slice(text, Max(0, pos - context_window),
                      Min(Len(text), pos + Len(ticker) + context_window)) >>

\* the contexts of one post: text[max(0, pos - 100):min(len(text), pos + len(ticker) + 100)]
\* for every position pos (0-based) of the ticker in text.upper()
FindContexts(text, ticker) ==
  LET ticker_positions == Ascending(FindAll(Upper(text), Upper(ticker)))
  IN [ k \in DOMAIN ticker_positions |->
         LET pos == ticker_positions[k] - 1
         IN Slice(text, Max(0, pos - context_window),
                  Min(Len(text), pos + Len(ticker) + context_window)) ]

context_memo ==
  [ key \in TextPool \X TickerUniverse |-> FindContexts(key[1], key[2]) ]

PostContexts(text, ticker) ==
  Memo(context_memo, <<text, ticker>>, FindContexts(text, ticker))

RECURSIVE TickerContexts(_, _)
TickerContexts(list, ticker) ==
  IF list = <<>> THEN <<>>
  ELSE PostContexts(Head(list).text, ticker) \o TickerContexts(Tail(list), ticker)

NoContextSentiment ==
  [sentiment_score |-> 0, confidence |-> 0, post_count |-> 0,
   keyword_sentiment |-> 0, textblob_sentiment |-> 0]

\* the averages and the confidence, from the two score lists
ContextSentiment(list, keyword_scores, textblob_scores) ==
  LET avg_keyword     == SumSeq(keyword_scores) \div Len(keyword_scores)
      avg_textblob    == SumSeq(textblob_scores) \div Len(textblob_scores)
      combined_score  == Mul(avg_keyword, 700) + Mul(Mul(avg_textblob, 3000), 300)
      keyword_std     == calculate_std(keyword_scores)
      textblob_std    == calculate_std(textblob_scores)
  IN [sentiment_score |-> combined_score,
      confidence |-> Div(Scale, Scale + keyword_std + textblob_std),
      post_count |-> Len(list),
      keyword_sentiment |-> avg_keyword,
      textblob_sentiment |-> avg_textblob]

\* for context in ticker_contexts: one keyword and one TextBlob score each
ScoreContexts(list, ticker_contexts) ==
  IF ticker_contexts = <<>> THEN NoContextSentiment
  ELSE ContextSentiment(list,
         [ k \in DOMAIN ticker_contexts |-> KeywordSentiment(ticker_contexts[k]) ],
         [ k \in DOMAIN ticker_contexts |-> TextBlobPolarity(ticker_contexts[k]) ])

calculate_ticker_context_sentiment(list, ticker) ==
  IF list = <<>> THEN NoContextSentiment
  ELSE ScoreContexts(list, TickerContexts(list, ticker))

\* the posts whose timestamp parsed, in list order:
\* timestamped_posts before the sort
Timestamped(list) == SelectSeq(list, LAMBDA post : ParseTimestamp(post).ok)

\* sorting compares datetimes; Python refuses to compare an offset-aware
\* datetime with an offset-naive one (TypeError), and the sort is outside
\* every try block
SortRaises(list) ==
  LET timestamped_posts == Timestamped(list)
  IN /\ Len(timestamped_posts) >= 2
     /\ \E i, j \in DOMAIN timestamped_posts :
          /\ ParseTimestamp(timestamped_posts[i]).aware
          /\ ~ParseTimestamp(timestamped_posts[j]).aware

\* the value datetimes of one kind are ordered by
InstantOf(post_time) == IF post_time.aware THEN post_time.utc ELSE post_time.hour

Instant(post) == InstantOf(ParseTimestamp(post))

NeutralTrend == [trend |-> "neutral", trend_strength |-> 0]

\* defined when SortRaises(list) is false
\* the trend, from late_score - early_score
TrendOf(trend_change) ==
  [trend |-> IF trend_change > 200 THEN "improving"
             ELSE IF trend_change < -200 THEN "declining"
             ELSE "stable",
   trend_strength |-> Abs(trend_change)]

\* the posts of the early half (timestamp <= mid_time) or of the late half,
\* mid_time = first + total_time / 2 kept in whole hours
HalfOf(timestamped_posts, first, total_time, early) ==
  SelectSeq(timestamped_posts,
            LAMBDA post : (2 * Instant(post) <= 2 * first + total_time) = early)

\* late_score - early_score decides the trend when the posts span some time
SplitTrend(timestamped_posts, first, total_time, ticker) ==
  IF total_time < 1 THEN NeutralTrend
  ELSE TrendOf(
         calculate_ticker_context_sentiment(
           HalfOf(timestamped_posts, first, total_time, FALSE), ticker).sentiment_score
         - calculate_ticker_context_sentiment(
             HalfOf(timestamped_posts, first, total_time, TRUE), ticker).sentiment_score)

\* instants[k] is the time of timestamped_posts[k]
TimedTrend(timestamped_posts, instants, ticker) ==
  IF Len(timestamped_posts) < 2 THEN NeutralTrend
  ELSE SplitTrend(timestamped_posts, MinSeq(instants),
                  MaxSeq(instants) - MinSeq(instants), ticker)

\* the instants of a post list
Instants(list) == [ k \in DOMAIN list |-> Instant(list[k]) ]

\* defined when SortRaises(list) is false
TrendOfTimestamped(timestamped_posts, ticker) ==
  TimedTrend(timestamped_posts, Instants(timestamped_posts), ticker)

calculate_sentiment_trend(list, ticker) ==
  IF list = <<>> THEN NeutralTrend
  ELSE TrendOfTimestamped(Timestamped(list), ticker)

\* one ticker's entry of calculate_comprehensive_sentiment_score
\* weighted_sentiment /= total_weight, if total_weight > 0
WeightedMean(weighted_sentiment, total_weight) ==
  IF total_weight > 0 THEN Div(weighted_sentiment, total_weight) ELSE weighted_sentiment

\* the source-weighted mean of the posts' keyword sentiment
WeightedSentiment(list) ==
  LET source_weights == DefaultSourceWeights
      post_sentiment(post) ==
        Mul(KeywordSentiment(post.text), SourceWeight(source_weights, post.source))
      weight(post) == SourceWeight(source_weights, post.source)
  IN WeightedMean(SumSeq([ i \in DOMAIN list |-> post_sentiment(list[i]) ]),
                  SumSeq([ i \in DOMAIN list |-> weight(list[i]) ]))

\* the entry, from the three parts of the final score
FinalSentiment(list, context_sentiment, weighted_sentiment, trend_analysis) ==
  LET direction == IF trend_analysis.trend = "improving" THEN Scale
                   ELSE IF trend_analysis.trend = "declining" THEN -Scale
                   ELSE 0
      final_sentiment ==
        Mul(context_sentiment.sentiment_score, 500)
          + Mul(weighted_sentiment, 300)
          + Mul(Mul(direction, trend_analysis.trend_strength), 200)
  IN [sentiment_score |-> final_sentiment,
      confidence |-> context_sentiment.confidence,
      post_count |-> Len(list),
      trend |-> trend_analysis.trend,
      trend_strength |-> trend_analysis.trend_strength]

TickerSentiment(list, ticker) ==
  IF list = <<>>
  THEN [sentiment_score |-> 0, confidence |-> 0, post_count |-> 0,
        trend |-> "neutral", trend_strength |-> 0]
  ELSE FinalSentiment(list,
                      calculate_ticker_context_sentiment(list, ticker),
                      WeightedSentiment(list),
                      calculate_sentiment_trend(list, ticker))

\* the call raises when the trend analysis of some ticker does
SentimentRaises(group) ==
  \E ticker \in KeySet(group) : SortRaises(PostsOf(group, ticker))

calculate_comprehensive_sentiment_score(group) ==
  [ ticker \in KeySet(group) |-> TickerSentiment(PostsOf(group, ticker), ticker) ]

(***************************************************************************)
(* scorer/hype_scorer.py: HypeScorer                                       *)
(***************************************************************************)
\* math.exp(-1 / 12.0) in thousandths: math.exp(-hours_ago / 12.0) is this
\* factor raised to hours_ago
recency_decay_per_hour == 920

calculate_recency_multiplier(list) ==
  LET valid == Timestamped(list)
      recency_score(post) == Pow(recency_decay_per_hour, HoursAgo(post, clock))
      avg_recency == SumSeq([ i \in DOMAIN valid |-> recency_score(valid[i]) ]) \div Len(valid)
  IN IF list = <<>> THEN Scale
     ELSE IF valid = <<>> THEN Scale
     ELSE 500 + avg_recency

\* if self.recency_boost: modified_score *= recency_multiplier
RecencyBoost(modified_score, list) ==
  IF config.recency_boost
  THEN Mul(modified_score, calculate_recency_multiplier(list))
  ELSE modified_score

\* if self.cross_platform_bonus: 15% per additional platform
CrossPlatformBonus(modified_score, list) ==
  LET platform_count == Cardinality(SourcesOf(list))
  IN IF config.cross_platform_bonus /\ platform_count > 1
     THEN Mul(modified_score, Scale + (platform_count - 1) * 150)
     ELSE modified_score

\* fault variant: the engagement multiplier applied whatever its switch says
EngagementBoostAlways(modified_score, list) ==
  LET engagement(post) == post.engagement_score
      avg_engagement == (SumSeq([ i \in DOMAIN list |-> engagement(list[i]) ]) * Scale) \div Len(list)
  IN Mul(modified_score, Scale + Min(avg_engagement \div 100, 500))

\* if self.engagement_multiplier: up to 50% for the average engagement
EngagementBoost(modified_score, list) ==
  LET engagement(post) == post.engagement_score
      avg_engagement == (SumSeq([ i \in DOMAIN list |-> engagement(list[i]) ]) * Scale) \div Len(list)
  IN IF config.engagement_multiplier
     THEN Mul(modified_score, Scale + Min(avg_engagement \div 100, 500))
     ELSE modified_score

\* confidence_multiplier = 0.8 + (sentiment_confidence * 0.4)
ConfidenceBoost(modified_score, sentiment_data) ==
  Mul(modified_score, 800 + Mul(sentiment_data.confidence, 400))

\* fault variant: the velocity bonus without its threshold
VelocityBoostAlways(modified_score, metrics) ==
  Mul(modified_score, Scale + Min(metrics.velocity_per_hour \div 10, 300))

\* if velocity > 2.0: up to 30%
VelocityBoost(modified_score, metrics) ==
  LET velocity == metrics.velocity_per_hour
  IN IF velocity > 2000
     THEN Mul(modified_score, Scale + Min(velocity \div 10, 300))
     ELSE modified_score

\* if spike_ratio > 1.5: up to 25%
SpikeBoost(modified_score, metrics) ==
  LET spike_ratio == metrics.spike_ratio
  IN IF spike_ratio > 1500
     THEN Mul(modified_score, Scale + Min((spike_ratio - Scale) \div 5, 250))
     ELSE modified_score

apply_scoring_modifiers(ticker, base_score, list, metrics, sentiment_data) ==
  SpikeBoost(
    VelocityBoost(
      ConfidenceBoost(
        EngagementBoost(
          CrossPlatformBonus(RecencyBoost(base_score, list), list),
          list),
        sentiment_data),
      metrics),
    metrics)

\* the result compiled for one ticker that passed the confidence filter
Result(group, ticker, volume, metrics, sentiment) ==
  LET list == PostsOf(group, ticker)
      volume_score == volume[ticker]
      sentiment_data == sentiment[ticker]
      base == Mul(volume_score, config.volume_weight)
                + Mul(sentiment_data.sentiment_score, config.sentiment_weight)
  IN [ticker |-> ticker,
      hype_score |-> apply_scoring_modifiers(ticker, base, list, metrics[ticker],
                                             sentiment_data),
      volume_score |-> volume_score,
      sentiment_score |-> sentiment_data.sentiment_score,
      sentiment_confidence |-> sentiment_data.confidence,
      mention_count |-> Len(list),
      timestamp |-> clock,
      sentiment_trend |-> sentiment_data.trend,
      platforms |-> SourcesOf(list),
      platform_count |-> Cardinality(SourcesOf(list)),
      rank |-> 0]

RECURSIVE CombineScoresUnderHalf(_, _, _, _, _)
\* Fault variant: the loop with a floor of 0.5 whatever the configuration.
CombineScoresUnderHalf(group, k, volume, metrics, sentiment) ==
  IF k > Len(group) THEN <<>>
  ELSE LET ticker == group[k].ticker
           rest == CombineScoresUnderHalf(group, k + 1, volume, metrics, sentiment)
       IN IF sentiment[ticker].confidence < Scale \div 2
          THEN rest
          ELSE <<Result(group, ticker, volume, metrics, sentiment)>> \o rest

\* the loop over filtered_ticker_posts.keys(): tickers under the confidence
\* threshold are skipped, the others appended in dict order
RECURSIVE CombineScores(_, _, _, _, _)
CombineScores(group, k, volume, metrics, sentiment) ==
  IF k > Len(group) THEN <<>>
  ELSE LET ticker == group[k].ticker
           rest == CombineScores(group, k + 1, volume, metrics, sentiment)
       IN IF sentiment[ticker].confidence < config.min_sentiment_confidence
          THEN rest
          ELSE <<Result(group, ticker, volume, metrics, sentiment)>> \o rest

RECURSIVE SortAscending(_)
\* Fault variant: the sort without reverse=True.
SortAscending(list) ==
  IF list = <<>> THEN <<>>
  ELSE LET last == list[Len(list)]
           sorted == SortAscending(SubSeq(list, 1, Len(list) - 1))
           ahead == { i \in DOMAIN sorted : sorted[i].hype_score <= last.hype_score }
           n == Cardinality(ahead)
       IN SubSeq(sorted, 1, n) \o <<last>> \o SubSeq(sorted, n + 1, Len(sorted))

\* list.sort(key=hype_score, reverse=True): a stable sort, so entries of
\* equal score keep their order
RECURSIVE SortDescending(_)
SortDescending(list) ==
  IF list = <<>> THEN <<>>
  ELSE LET last == list[Len(list)]
           sorted == SortDescending(SubSeq(list, 1, Len(list) - 1))
           ahead == { i \in DOMAIN sorted : sorted[i].hype_score >= last.hype_score }
           n == Cardinality(ahead)
       IN SubSeq(sorted, 1, n) \o <<last>> \o SubSeq(sorted, n + 1, Len(sorted))

\* for i, result in enumerate(hype_results): result['rank'] = i + 1
AssignRanks(list) == [ i \in DOMAIN list |-> [list[i] EXCEPT !.rank = i] ]

\* hype_results[:top_n_tickers]
TopN(list, n) == SubSeq(list, 1, Min(Len(list), n))

\* Fault variant: the filter keeps len(posts) > min_mentions.
FilterMentionsStrict(group) ==
  SelectSeq(group, LAMBDA e : Len(e.posts) > config.min_mentions)

\* filtered_ticker_posts: the entries with len(posts) >= min_mentions
FilterMentions(group) ==
  SelectSeq(group, LAMBDA e : Len(e.posts) >= config.min_mentions)

\* the result list of a call that does not raise
RankedResults(filtered, volume, metrics, sentiment) ==
  LET hype_results == CombineScores(filtered, 1, volume, metrics, sentiment)
  IN TopN(AssignRanks(SortDescending(hype_results)), config.top_n_tickers)

\* get_scoring_summary(results): the summary record of one result batch
ScoringSummary(list) ==
  IF list = <<>> THEN [total_tickers |-> 0]
  ELSE [total_tickers |-> Len(list),
        total_mentions |-> SumSeq([ i \in DOMAIN list |-> list[i].mention_count ]),
        avg_hype_score |-> SumSeq([ i \in DOMAIN list |-> list[i].hype_score ]) \div Len(list),
        avg_sentiment_score |->
          SumSeq([ i \in DOMAIN list |-> list[i].sentiment_score ]) \div Len(list),
        avg_volume_score |->
          SumSeq([ i \in DOMAIN list |-> list[i].volume_score ]) \div Len(list),
        top_ticker |-> list[1].ticker,
        top_hype_score |-> list[1].hype_score,
        platform_distribution |->
          [ platform \in UNION { list[i].platforms : i \in DOMAIN list } |->
              Cardinality({ i \in DOMAIN list : platform \in list[i].platforms }) ],
        sentiment_trend_distribution |->
          [ trend \in { list[i].sentiment_trend : i \in DOMAIN list } |->
              Cardinality({ i \in DOMAIN list : list[i].sentiment_trend = trend }) ],
        scoring_weights |-> [volume_weight |-> config.volume_weight,
                             sentiment_weight |-> config.sentiment_weight],
        timestamp |-> clock]

(***************************************************************************)
(* The scan pipeline (cli/main.py, scan): posts are fetched into a batch,  *)
(* calculate_hype_scores ranks the batch, and the scan may be repeated     *)
(* later, or by a fresh process, on the same batch.                        *)
(***************************************************************************)
\* file_utils.load_ticker_list when tickers.csv does not exist
default_ticker_list ==
  <<"AAPL", "GOOGL", "MSFT", "TSLA", "AMZN", "META", "NVDA", "AMD", "SPY", "QQQ">>

Config(min_mentions, top_n_tickers, min_sentiment_confidence) ==
  [volume_weight |-> 700, sentiment_weight |-> 300,
   min_mentions |-> min_mentions, top_n_tickers |-> top_n_tickers,
   recency_boost |-> TRUE, cross_platform_bonus |-> TRUE, engagement_multiplier |-> TRUE,
   min_sentiment_confidence |-> min_sentiment_confidence,
   time_decay_factor |-> 900, engagement_weight |-> 300,
   source_weights |-> DefaultSourceWeights]

\* config.get('min_sentiment_confidence', 0.1)
default_min_sentiment_confidence == 100

ConfigPool == { Config(1, 2, 100), Config(2, 1, 100), Config(1, 2, 500) }

NotCalled == [clock |-> 0, hash_order |-> <<>>]

NoCall == [outcome |-> "idle", clock |-> 0, hash_order |-> <<>>, results |-> <<>>]

\* the values of the call records before any call
NoSummary == [called |-> FALSE]

NoTrend == [called |-> FALSE]

NoArgs == [called |-> FALSE]

NoSentiment == [called |-> FALSE]

IdleTask == [pc |-> "idle"]

\* a constructed scorer that has not been called
Constructed ==
  /\ clock = FirstHour
  /\ posts = <<>>
  /\ outcome = "idle"
  /\ called = NotCalled
  /\ calls = 0
  /\ ticker_posts = <<>>
  /\ filtered_ticker_posts = <<>>
  /\ volume_scores = <<>>
  /\ sentiment_scores = <<>>
  /\ results = <<>>
  /\ previous = NoCall
  /\ candidate = ""
  /\ verdict = FALSE
  /\ raw_scores = <<>>
  /\ normalized = <<>>
  /\ summary_arg = <<>>
  /\ summary_result = NoSummary
  /\ text_arg = ""
  /\ keyword_result = 0
  /\ ticker_arg = ""
  /\ trend_result = NoTrend
  /\ context_result = <<>>
  /\ modifier_args = NoArgs
  /\ modifier_result = 0
  /\ recency_result = 0
  /\ sentiment_result = NoSentiment
  /\ extract_result = <<>>
  /\ shared_group = <<>>
  /\ volume_task = IdleTask
  /\ sentiment_task = IdleTask

Init ==
  /\ ticker_list = default_ticker_list
  /\ known_tickers = Range(ticker_list)
  /\ hash_order \in HashOrders
  /\ config \in ConfigPool
  /\ Constructed

\* a fetcher delivers one more post for the coming scan
Fetch ==
  /\ outcome = "idle"
  /\ Len(posts) < MaxPosts
  /\ \E post \in PostPool : posts' = Append(posts, post)
  /\ UNCHANGED <<ticker_list, known_tickers, hash_order, clock, config, outcome, called,
                 calls, ticker_posts, filtered_ticker_posts, volume_scores, sentiment_scores,
                 results, previous, candidate, verdict, raw_scores, normalized>>
  /\ UNCHANGED <<unit_vars, task_vars>>

\* wall-clock time passes between two calls
Tick ==
  /\ outcome # "idle"
  /\ calls < MaxCalls
  /\ clock < MaxClock
  /\ clock' = clock + 1
  /\ UNCHANGED <<ticker_list, known_tickers, hash_order, config, posts, outcome, called,
                 calls, ticker_posts, filtered_ticker_posts, volume_scores, sentiment_scores,
                 results, previous, candidate, verdict, raw_scores, normalized>>
  /\ UNCHANGED <<unit_vars, task_vars>>

\* between two calls the program is started again: a new process has its own
\* string hashes
Restart ==
  /\ outcome # "idle"
  /\ calls < MaxCalls
  /\ \E order \in HashOrders : order # hash_order /\ hash_order' = order
  /\ UNCHANGED <<ticker_list, known_tickers, clock, config, posts, outcome, called,
                 calls, ticker_posts, filtered_ticker_posts, volume_scores, sentiment_scores,
                 results, previous, candidate, verdict, raw_scores, normalized>>
  /\ UNCHANGED <<unit_vars, task_vars>>

\* HypeScorer.calculate_hype_scores(posts), the whole call
calculate_hype_scores ==
  /\ calls < MaxCalls
  /\ calls' = calls + 1
  /\ previous' = [outcome |-> outcome, clock |-> called.clock,
                  hash_order |-> called.hash_order, results |-> results]
  /\ called' = [clock |-> clock, hash_order |-> hash_order]
  \* if not posts: return []
  /\ ticker_posts' = IF posts = <<>> THEN <<>> ELSE extract_tickers_from_posts(posts)
  /\ posts' = CallerPosts(posts)
  /\ filtered_ticker_posts' = FilterMentions(ticker_posts')
  \* if not filtered_ticker_posts: return []
  /\ volume_scores' =
       IF filtered_ticker_posts' = <<>> THEN <<>>
       ELSE calculate_comprehensive_volume_score(filtered_ticker_posts')
  /\ outcome' = IF SentimentRaises(filtered_ticker_posts') THEN "raised" ELSE "returned"
  /\ sentiment_scores' =
       IF filtered_ticker_posts' = <<>> \/ outcome' = "raised" THEN <<>>
       ELSE calculate_comprehensive_sentiment_score(filtered_ticker_posts')
  /\ results' =
       IF filtered_ticker_posts' = <<>> \/ outcome' = "raised" THEN <<>>
       ELSE RankedResults(filtered_ticker_posts', volume_scores',
                          get_volume_metrics(filtered_ticker_posts'), sentiment_scores')
  /\ UNCHANGED <<ticker_list, known_tickers, hash_order, clock, config,
                 candidate, verdict, raw_scores, normalized>>
  /\ UNCHANGED <<unit_vars, task_vars>>

\* HypeScorer.get_scoring_summary(results) on the list the last call returned
get_scoring_summary ==
  /\ outcome = "returned"
  /\ summary_result = NoSummary \/ summary_arg # results
  /\ summary_arg' = results
  /\ summary_result' = ScoringSummary(results)
  /\ UNCHANGED <<ticker_list, known_tickers, hash_order, clock, config, posts, outcome,
                 called, calls, ticker_posts, filtered_ticker_posts, volume_scores,
                 sentiment_scores, results, previous, candidate, verdict, raw_scores,
                 normalized, task_vars>>
  /\ UNCHANGED <<text_arg, keyword_result, ticker_arg, trend_result,
                 context_result, modifier_args, modifier_result, recency_result,
                 sentiment_result, extract_result>>

Next == Fetch \/ Tick \/ Restart \/ calculate_hype_scores \/ get_scoring_summary

Spec == Init /\ [][Next]_vars

(***************************************************************************)
(* The two scorers as tasks over one TickerPostGroup (hype_scorer.py:69-74 *)
(* run one after the other; here their steps interleave).  The Volume      *)
(* Scorer computes its six sub-metric maps ticker by ticker and then the   *)
(* composite; the Sentiment Scorer computes one ticker's entry per step.   *)
(* Each task writes its own record; what a step does to the group is       *)
(* written out.                                                            *)
(***************************************************************************)
VolumePhases ==
  <<"raw", "weighted", "time_weighted", "velocity", "spike", "cross_platform">>

\* the sub-metric map a phase of the Volume Scorer computes
PhaseMap(phase, group) ==
  CASE phase = "raw" -> calculate_raw_volume(group)
    [] phase = "weighted" -> calculate_weighted_volume(group)
    [] phase = "time_weighted" -> calculate_time_weighted_volume(group)
    [] phase = "velocity" -> calculate_velocity_score(group)
    [] phase = "spike" -> calculate_spike_detection(group)
    [] phase = "cross_platform" -> calculate_cross_platform_boost(group)

\* final_scores, from the six maps of the task
CombineVolume(keys, maps) ==
  LET norm_raw      == normalize_scores(maps.raw)
      norm_weighted == normalize_scores(maps.weighted)
      norm_time     == normalize_scores(maps.time_weighted)
      norm_velocity == normalize_scores(maps.velocity)
      norm_spike    == normalize_scores(maps.spike)
  IN [ t \in keys |->
         Mul(Mul(norm_raw[t], component_weights.raw)
               + Mul(norm_weighted[t], component_weights.weighted)
               + Mul(norm_time[t], component_weights.time_weighted)
               + Mul(norm_velocity[t], component_weights.velocity)
               + Mul(norm_spike[t], component_weights.spike),
             maps.cross_platform[t]) ]

\* a stable sort of a post list by timestamp, unparsable timestamps first
RECURSIVE SortedByTimestamp(_)
SortedByTimestamp(list) ==
  IF list = <<>> THEN <<>>
  ELSE LET last == list[Len(list)]
           sorted == SortedByTimestamp(SubSeq(list, 1, Len(list) - 1))
           ahead == { i \in DOMAIN sorted : Instant(sorted[i]) <= Instant(last) }
           n == Cardinality(ahead)
       IN SubSeq(sorted, 1, n) \o <<last>> \o SubSeq(sorted, n + 1, Len(sorted))

\* Fault variant: the trend analysis sorts the list it was handed, in place.
PostsAfterSentimentSortedInPlace(list) == SortedByTimestamp(list)

\* The ticker's post list after the Sentiment Scorer worked on it: the
\* scorer reads the posts with post.get, collects (timestamp, post) pairs in
\* a list of its own and sorts that; the list it was handed is as before.
PostsAfterSentiment(list) == list

\* The ticker's post list after a phase of the Volume Scorer: every phase
\* reads the posts with post.get and adds to its own accumulators.
PostsAfterVolume(list) == list

NoMaps ==
  [raw |-> <<>>, weighted |-> <<>>, time_weighted |-> <<>>, velocity |-> <<>>,
   spike |-> <<>>, cross_platform |-> <<>>]

InitTasks ==
  /\ ticker_list = default_ticker_list
  /\ known_tickers = Range(ticker_list)
  /\ hash_order \in HashOrders
  /\ config = Config(1, 2, 100)
  /\ Constructed

\* both scorers are started on the filtered group of the last call
StartTasks ==
  /\ outcome # "idle"
  /\ filtered_ticker_posts # <<>>
  /\ volume_task = IdleTask
  /\ sentiment_task = IdleTask
  /\ shared_group' = filtered_ticker_posts
  /\ volume_task' = [pc |-> "metrics", phase |-> 1, k |-> 1, maps |-> NoMaps,
                     final_scores |-> <<>>]
  /\ sentiment_task' = [pc |-> "tickers", k |-> 1, sentiment_scores |-> <<>>]
  /\ UNCHANGED <<ticker_list, known_tickers, hash_order, clock, config, posts, outcome,
                 called, calls, ticker_posts, filtered_ticker_posts, volume_scores,
                 sentiment_scores, results, previous, candidate, verdict, raw_scores,
                 normalized, unit_vars>>

\* one step of the Volume Scorer: one ticker's value of one sub-metric, or,
\* after the last of them, the normalisation and the composite
VolumeStep ==
  /\ volume_task.pc \in {"metrics", "combine"}
  /\ IF volume_task.pc = "metrics"
     THEN LET phase == VolumePhases[volume_task.phase]
              t == shared_group[volume_task.k].ticker
              last_ticker == volume_task.k = Len(shared_group)
              last_phase == volume_task.phase = Len(VolumePhases)
          IN /\ volume_task' =
                  [volume_task EXCEPT
                     !.maps[phase] = @ @@ (t :> PhaseMap(phase, shared_group)[t]),
                     !.k = IF last_ticker THEN 1 ELSE @ + 1,
                     !.phase = IF last_ticker /\ ~last_phase THEN @ + 1 ELSE @,
                     !.pc = IF last_ticker /\ last_phase THEN "combine" ELSE @]
             /\ shared_group' =
                  [shared_group EXCEPT ![volume_task.k].posts = PostsAfterVolume(@)]
     ELSE /\ volume_task' =
               [volume_task EXCEPT
                  !.final_scores = CombineVolume(KeySet(shared_group), volume_task.maps),
                  !.pc = "done"]
          /\ UNCHANGED shared_group
  /\ UNCHANGED sentiment_task
  /\ UNCHANGED <<ticker_list, known_tickers, hash_order, clock, config, posts, outcome,
                 called, calls, ticker_posts, filtered_ticker_posts, volume_scores,
                 sentiment_scores, results, previous, candidate, verdict, raw_scores,
                 normalized, unit_vars>>

\* one step of the Sentiment Scorer: one ticker's entry; a TypeError of the
\* trend analysis ends the task
SentimentStep ==
  /\ sentiment_task.pc = "tickers"
  /\ LET entry == shared_group[sentiment_task.k]
         last_ticker == sentiment_task.k = Len(shared_group)
     IN /\ sentiment_task' =
             IF SortRaises(entry.posts)
             THEN [sentiment_task EXCEPT !.pc = "raised", !.sentiment_scores = <<>>]
             ELSE [sentiment_task EXCEPT
                     !.sentiment_scores =
                        @ @@ (entry.ticker :> TickerSentiment(entry.posts, entry.ticker)),
                     !.k = IF last_ticker THEN @ ELSE @ + 1,
                     !.pc = IF last_ticker THEN "done" ELSE @]
        /\ shared_group' =
             [shared_group EXCEPT ![sentiment_task.k].posts = PostsAfterSentiment(@)]
  /\ UNCHANGED volume_task
  /\ UNCHANGED <<ticker_list, known_tickers, hash_order, clock, config, posts, outcome,
                 called, calls, ticker_posts, filtered_ticker_posts, volume_scores,
                 sentiment_scores, results, previous, candidate, verdict, raw_scores,
                 normalized, unit_vars>>

NextTasks == Fetch \/ calculate_hype_scores \/ StartTasks \/ VolumeStep \/ SentimentStep

SpecTasks == InitTasks /\ [][NextTasks]_vars

(***************************************************************************)
(* TickerParser.extract_tickers_from_posts and get_ticker_context on their *)
(* own: a post list is written, grouped by ticker and searched for the     *)
(* contexts of a ticker.                                                   *)
(***************************************************************************)
MaxExtractPosts == 3

\* the texts a post may carry
ExtractTexts ==
  { "", "$GME", "$GME $GME", "$GME $AMC buy", "buy AMC", "a $gme $GME",
    "the ceo", "$THE $ABCDEF" }

\* the tickers and the window sizes get_ticker_context is asked about
ContextTickers == {"GME", "gme", "AMC"}

ContextWindows == {2, 50}

InitExtract ==
  /\ ticker_list = default_ticker_list
  /\ known_tickers = Range(ticker_list)
  /\ hash_order \in HashOrders
  /\ config = Config(1, 1, 0)
  /\ Constructed

\* one more post of the list
WritePost ==
  /\ outcome = "idle"
  /\ Len(posts) < MaxExtractPosts
  /\ \E t \in ExtractTexts : posts' = Append(posts, Post(t, "twitter", 0, ""))
  /\ UNCHANGED <<ticker_list, known_tickers, hash_order, clock, config, outcome,
                 called, calls, ticker_posts, filtered_ticker_posts, volume_scores,
                 sentiment_scores, results, previous, candidate, verdict, raw_scores,
                 normalized, unit_vars, task_vars>>

\* one call of extract_tickers_from_posts(posts)
ExtractTickers ==
  /\ calls = 0
  /\ calls' = 1
  /\ outcome' = "returned"
  /\ ticker_posts' = extract_tickers_from_posts(posts)
  /\ posts' = CallerPosts(posts)
  /\ UNCHANGED <<ticker_list, known_tickers, hash_order, clock, config,
                 called, filtered_ticker_posts, volume_scores,
                 sentiment_scores, results, previous, candidate, verdict, raw_scores,
                 normalized, unit_vars, task_vars>>

\* one call of get_ticker_context(posts, ticker, context_window)
GetContext ==
  /\ ticker_arg = ""
  /\ outcome' = "returned"
  /\ \E t \in ContextTickers, window \in ContextWindows :
       /\ ticker_arg' = t
       /\ context_result' = get_ticker_context(posts, t, window)
  /\ UNCHANGED <<ticker_list, known_tickers, hash_order, clock, config, posts,
                 called, calls, ticker_posts, filtered_ticker_posts, volume_scores,
                 sentiment_scores, results, previous, candidate, verdict, raw_scores,
                 normalized, task_vars>>
  /\ UNCHANGED <<summary_arg, summary_result, text_arg, keyword_result, trend_result,
                 modifier_args, modifier_result, recency_result,
                 sentiment_result, extract_result>>

NextExtract == WritePost \/ ExtractTickers \/ GetContext

SpecExtract == InitExtract /\ [][NextExtract]_vars

(***************************************************************************)
(* HypeScorer._apply_scoring_modifiers and _calculate_recency_multiplier   *)
(* on their own: a scorer is constructed from a configuration, then one    *)
(* ticker's base score is modified, or the recency multiplier of a post    *)
(* list is computed.                                                       *)
(***************************************************************************)
MaxModifyPosts == 2

Modifiers == {"recency", "cross_platform", "engagement", "confidence", "velocity", "spike"}

\* the modifiers HypeScorer.__init__ reads a switch for
Switchable == {"recency", "cross_platform", "engagement"}

\* the configuration of a caller who wants the modifiers of switched_off off:
\* the constructor reads recency_boost, cross_platform_bonus and
\* engagement_multiplier and no key for the other three modifiers
ConfigWith(switched_off) ==
  [Config(1, 2, 100) EXCEPT !.recency_boost = "recency" \notin switched_off,
                            !.cross_platform_bonus = "cross_platform" \notin switched_off,
                            !.engagement_multiplier = "engagement" \notin switched_off]

\* datetime.now() of the call: before, between and after the timestamps
ModifyClocks == {3, 6}

ModifyPosts ==
  { Post("$GME buy", "twitter", 0, ""),
    Post("$GME moon", "reddit", 30, "2024-01-01T04:00:00"),
    Post("$GME crash", "twitter", 80, "2024-01-01T02:00:00") }

ModifyLists == UNION { [1..n -> ModifyPosts] : n \in 1..MaxModifyPosts }

VolumeScorePool == {2000}

SentimentDataPool ==
  { [sentiment_score |-> score, confidence |-> confidence, post_count |-> 1,
     trend |-> "neutral", trend_strength |-> 0] :
      score \in {-500, 800}, confidence \in {250, 1000} }

MetricsPool ==
  { [velocity_per_hour |-> velocity, spike_ratio |-> spike_ratio] :
      velocity \in {2000, 2500, 4000}, spike_ratio \in {1500, 2000, 3500} }

InitModify ==
  /\ ticker_list = default_ticker_list
  /\ known_tickers = Range(ticker_list)
  /\ hash_order = <<"GME">>
  /\ config = Config(1, 2, 100)
  /\ Constructed

\* HypeScorer(config) at some time of day
Configure ==
  /\ modifier_args = NoArgs
  /\ outcome = "idle"
  /\ \E switched_off \in SUBSET Modifiers :
       /\ config' = ConfigWith(switched_off)
       /\ modifier_args' = [called |-> FALSE, switched_off |-> switched_off]
  /\ clock' \in ModifyClocks
  /\ outcome' = "configured"
  /\ UNCHANGED <<ticker_list, known_tickers, hash_order, posts,
                 called, calls, ticker_posts, filtered_ticker_posts, volume_scores,
                 sentiment_scores, results, previous, candidate, verdict, raw_scores,
                 normalized, task_vars>>
  /\ UNCHANGED <<summary_arg, summary_result, text_arg, keyword_result, ticker_arg,
                 trend_result, context_result, modifier_result, recency_result,
                 sentiment_result, extract_result>>

\* the base score of one ticker and _apply_scoring_modifiers on it
ApplyModifiers ==
  /\ outcome = "configured"
  /\ outcome' = "returned"
  /\ \E list \in ModifyLists, volume_score \in VolumeScorePool,
        sentiment_data \in SentimentDataPool, metrics \in MetricsPool :
       /\ modifier_args' = [called |-> TRUE, switched_off |-> modifier_args.switched_off,
                            list |-> list, volume_score |-> volume_score,
                            sentiment_data |-> sentiment_data, metrics |-> metrics]
       /\ modifier_result' =
            Result(<<[ticker |-> "GME", posts |-> list]>>, "GME",
                   [ t \in {"GME"} |-> volume_score ], [ t \in {"GME"} |-> metrics ],
                   [ t \in {"GME"} |-> sentiment_data ]).hype_score
  /\ UNCHANGED <<ticker_list, known_tickers, hash_order, clock, config, posts,
                 called, calls, ticker_posts, filtered_ticker_posts, volume_scores,
                 sentiment_scores, results, previous, candidate, verdict, raw_scores,
                 normalized, task_vars>>
  /\ UNCHANGED <<summary_arg, summary_result, text_arg, keyword_result, ticker_arg,
                 trend_result, context_result, recency_result,
                 sentiment_result, extract_result>>

\* one call of _calculate_recency_multiplier(posts)
CalculateRecency ==
  /\ outcome = "configured"
  /\ outcome' = "measured"
  /\ \E list \in ModifyLists \cup {<<>>} :
       /\ posts' = list
       /\ recency_result' = calculate_recency_multiplier(list)
  /\ UNCHANGED <<ticker_list, known_tickers, hash_order, clock, config,
                 called, calls, ticker_posts, filtered_ticker_posts, volume_scores,
                 sentiment_scores, results, previous, candidate, verdict, raw_scores,
                 normalized, task_vars>>
  /\ UNCHANGED <<summary_arg, summary_result, text_arg, keyword_result, ticker_arg,
                 trend_result, context_result, modifier_args, modifier_result,
                 sentiment_result, extract_result>>

NextModify == Configure \/ ApplyModifiers \/ CalculateRecency

SpecModify == InitModify /\ [][NextModify]_vars

(***************************************************************************)
(* TickerParser.is_valid_ticker on its own: a parser is constructed over   *)
(* a ticker list and asked about candidates.                               *)
(***************************************************************************)
\* a ticker file of n distinct symbols: ZAA, ZAB, ...
TickerFile(n) ==
  [ i \in 1..n |-> "Z" \o Char(UpperAlphabet, ((i - 1) \div 26) + 1)
                       \o Char(UpperAlphabet, ((i - 1) % 26) + 1) ]

\* what load_ticker_list can return: the built-in list (no file), nothing
\* (a file that cannot be read), a file's first column.  A file may name a
\* symbol twice.
TickerListPool ==
  { default_ticker_list,
    <<>>,
    TickerFile(KnownListThreshold),
    TickerFile(KnownListThreshold) \o <<"ZAA">>,
    TickerFile(KnownListThreshold) \o <<"AAPL">>,
    TickerFile(KnownListThreshold + 1) }

CandidatePool ==
  { "", "A", "X", "AB", "BB", "GME", "AMC", "AAPL", "MSFT", "ZAA", "ZZZ", "ABCDE",
    "ABCDEF", "GOOGLE", "THE", "CEO", "YOLO", "WITH", "THAT", "aapl", "Gme",
    "AB1", "$GME", "G ME", "BRK_B" }

InitValid ==
  /\ ticker_list \in TickerListPool
  /\ known_tickers = Range(ticker_list)
  /\ hash_order = <<>>
  /\ config = Config(1, 1, 0)
  /\ Constructed

\* TickerParser(): a parser is constructed over another ticker list
LoadTickerList ==
  /\ \E list \in TickerListPool :
       /\ list # ticker_list
       /\ ticker_list' = list
       /\ known_tickers' = Range(list)
  /\ outcome' = "idle"
  /\ candidate' = ""
  /\ verdict' = FALSE
  /\ UNCHANGED <<hash_order, clock, config, posts, called, calls, ticker_posts,
                 filtered_ticker_posts, volume_scores, sentiment_scores, results,
                 previous, raw_scores, normalized>>
  /\ UNCHANGED <<unit_vars, task_vars>>

\* one call of is_valid_ticker
CheckTicker ==
  /\ \E ticker \in CandidatePool :
       /\ candidate' = ticker
       /\ verdict' = is_valid_ticker(ticker)
  /\ outcome' = "returned"
  /\ UNCHANGED <<ticker_list, known_tickers, hash_order, clock, config, posts, called,
                 calls, ticker_posts, filtered_ticker_posts, volume_scores, sentiment_scores,
                 results, previous, raw_scores, normalized>>
  /\ UNCHANGED <<unit_vars, task_vars>>

NextValid == LoadTickerList \/ CheckTicker

SpecValid == InitValid /\ [][NextValid]_vars

(***************************************************************************)
(* VolumeScorer.normalize_scores on its own: a score map is drawn and      *)
(* normalized.                                                             *)
(***************************************************************************)
MaxScore == 3

ScoreTickers == {"GME", "AMC", "BB"}

\* the maps from some of the tickers to a raw score
ScoreMaps == UNION { [S -> 0..MaxScore] : S \in SUBSET ScoreTickers }

InitNorm ==
  /\ ticker_list = default_ticker_list
  /\ known_tickers = Range(ticker_list)
  /\ hash_order = <<>>
  /\ config = Config(1, 1, 0)
  /\ Constructed

\* a sub-metric map is computed for the current ticker set
NewScores ==
  /\ \E scores \in ScoreMaps : raw_scores' = scores
  /\ outcome' = "idle"
  /\ normalized' = <<>>
  /\ UNCHANGED <<ticker_list, known_tickers, hash_order, clock, config, posts, called,
                 calls, ticker_posts, filtered_ticker_posts, volume_scores, sentiment_scores,
                 results, previous, candidate, verdict>>
  /\ UNCHANGED <<unit_vars, task_vars>>

\* one call of normalize_scores
Normalize ==
  /\ outcome = "idle"
  /\ normalized' = normalize_scores(raw_scores)
  /\ outcome' = "returned"
  /\ UNCHANGED <<ticker_list, known_tickers, hash_order, clock, config, posts, called,
                 calls, ticker_posts, filtered_ticker_posts, volume_scores, sentiment_scores,
                 results, previous, candidate, verdict, raw_scores>>
  /\ UNCHANGED <<unit_vars, task_vars>>

NextNorm == NewScores \/ Normalize

SpecNorm == InitNorm /\ [][NextNorm]_vars

(***************************************************************************)
(* SentimentScorer.calculate_keyword_sentiment on its own: a text is       *)
(* written word by word and scored.                                        *)
(***************************************************************************)
MaxWords == 4

Vocabulary == {"not", "never", "bullish", "crash", "very", "at", "all", "dd"}

InitKeyword ==
  /\ ticker_list = default_ticker_list
  /\ known_tickers = Range(ticker_list)
  /\ hash_order = <<>>
  /\ config = Config(1, 1, 0)
  /\ Constructed

\* one more word of the text to score
Write ==
  /\ outcome = "idle"
  /\ Len(Split(text_arg)) < MaxWords
  /\ \E word \in Vocabulary :
       text_arg' = IF text_arg = "" THEN word ELSE text_arg \o " " \o word
  /\ UNCHANGED <<ticker_list, known_tickers, hash_order, clock, config, posts, outcome,
                 called, calls, ticker_posts, filtered_ticker_posts, volume_scores,
                 sentiment_scores, results, previous, candidate, verdict, raw_scores,
                 normalized, task_vars>>
  /\ UNCHANGED <<summary_arg, summary_result, keyword_result, ticker_arg, trend_result,
                 context_result, modifier_args, modifier_result, recency_result,
                 sentiment_result, extract_result>>

\* one call of calculate_keyword_sentiment
ScoreKeywords ==
  /\ outcome = "idle"
  /\ keyword_result' = calculate_keyword_sentiment(text_arg)
  /\ outcome' = "returned"
  /\ UNCHANGED <<ticker_list, known_tickers, hash_order, clock, config, posts,
                 called, calls, ticker_posts, filtered_ticker_posts, volume_scores,
                 sentiment_scores, results, previous, candidate, verdict, raw_scores,
                 normalized, task_vars>>
  /\ UNCHANGED <<summary_arg, summary_result, text_arg, ticker_arg, trend_result,
                 context_result, modifier_args, modifier_result, recency_result,
                 sentiment_result, extract_result>>

NextKeyword == Write \/ ScoreKeywords

SpecKeyword == InitKeyword /\ [][NextKeyword]_vars

(***************************************************************************)
(* calculate_keyword_sentiment on texts with slang phrases, noise words    *)
(* and more than ten words: a text is written word by word, padded with    *)
(* words that carry no sentiment, and scored.                              *)
(***************************************************************************)
MaxPhraseWords == 4

MaxPads == 2

PhraseVocabulary == {"diamond", "hands", "paper", "lol", "bullish", "crash", "not"}

\* five words without sentiment
Padding == "at at at at at"

\* one more word of the text to score
WriteWord ==
  /\ outcome = "idle"
  /\ Len(Split(text_arg)) < MaxPhraseWords
  /\ \E word \in PhraseVocabulary :
       text_arg' = IF text_arg = "" THEN word ELSE text_arg \o " " \o word
  /\ UNCHANGED <<ticker_list, known_tickers, hash_order, clock, config, posts, outcome,
                 called, calls, ticker_posts, filtered_ticker_posts, volume_scores,
                 sentiment_scores, results, previous, candidate, verdict, raw_scores,
                 normalized, task_vars>>
  /\ UNCHANGED <<summary_arg, summary_result, keyword_result, ticker_arg, trend_result,
                 context_result, modifier_args, modifier_result, recency_result,
                 sentiment_result, extract_result>>

\* the text grows by five words without sentiment; no word is written after
Pad ==
  /\ outcome = "idle"
  /\ text_arg # ""
  /\ Len(Split(text_arg)) + Len(Split(Padding)) <= MaxPhraseWords + MaxPads * Len(Split(Padding))
  /\ text_arg' = text_arg \o " " \o Padding
  /\ UNCHANGED <<ticker_list, known_tickers, hash_order, clock, config, posts, outcome,
                 called, calls, ticker_posts, filtered_ticker_posts, volume_scores,
                 sentiment_scores, results, previous, candidate, verdict, raw_scores,
                 normalized, task_vars>>
  /\ UNCHANGED <<summary_arg, summary_result, keyword_result, ticker_arg, trend_result,
                 context_result, modifier_args, modifier_result, recency_result,
                 sentiment_result, extract_result>>

NextPhrase == WriteWord \/ Pad \/ ScoreKeywords

SpecPhrase == InitKeyword /\ [][NextPhrase]_vars

(***************************************************************************)
(* SentimentScorer.calculate_sentiment_trend on its own: the posts of one  *)
(* ticker are collected and their trend is analysed.                       *)
(***************************************************************************)
MaxTrendPosts == 3

naive_middle == "2024-01-01T03:00:00"

aware_middle == "2024-01-01T05:00:00+02:00"

\* the posts that may mention the ticker
TrendPool ==
  { Post("$GME crash", "reddit", 0, naive_early),
    Post("$GME bullish", "twitter", 0, naive_early),
    Post("$GME buy", "reddit", 0, naive_middle),
    Post("$GME crash", "reddit", 50, naive_late),
    Post("$GME bullish", "twitter", 0, naive_late),
    Post("$GME bullish", "twitter", 0, aware_late),
    Post("$GME crash", "twitter", 0, aware_middle),
    Post("$GME buy", "twitter", 50, "soon") }

InitTrend ==
  /\ ticker_list = default_ticker_list
  /\ known_tickers = Range(ticker_list)
  /\ hash_order = <<>>
  /\ config = Config(1, 1, 0)
  /\ Constructed

\* one more post of the ticker
Collect ==
  /\ outcome = "idle"
  /\ Len(posts) < MaxTrendPosts
  /\ \E post \in TrendPool : posts' = Append(posts, post)
  /\ UNCHANGED <<ticker_list, known_tickers, hash_order, clock, config, outcome,
                 called, calls, ticker_posts, filtered_ticker_posts, volume_scores,
                 sentiment_scores, results, previous, candidate, verdict, raw_scores,
                 normalized, unit_vars, task_vars>>

\* one call of calculate_sentiment_trend(posts, 'GME')
AnalyzeTrend ==
  /\ outcome = "idle"
  /\ ticker_arg' = "GME"
  /\ outcome' = IF SortRaises(posts) THEN "raised" ELSE "returned"
  /\ trend_result' = IF outcome' = "raised" THEN NoTrend
                     ELSE calculate_sentiment_trend(posts, ticker_arg')
  /\ UNCHANGED <<ticker_list, known_tickers, hash_order, clock, config, posts,
                 called, calls, ticker_posts, filtered_ticker_posts, volume_scores,
                 sentiment_scores, results, previous, candidate, verdict, raw_scores,
                 normalized, task_vars>>
  /\ UNCHANGED <<summary_arg, summary_result, text_arg, keyword_result,
                 context_result, modifier_args, modifier_result, recency_result,
                 sentiment_result, extract_result>>

NextTrend == Collect \/ AnalyzeTrend

SpecTrend == InitTrend /\ [][NextTrend]_vars

(***************************************************************************)
(* The Volume Scorer's sub-metrics and the trend analysis on the posts of  *)
(* one ticker whose timestamps lie before, around and after the time of    *)
(* the call, or cannot be parsed.                                          *)
(***************************************************************************)
MaxVolumePosts == 3

naive_old == "2024-01-01T01:00:00"

naive_ahead == "2024-01-01T09:00:00"

VolumePool ==
  { Post("$GME crash", "reddit", 50, naive_old),
    Post("$GME crash", "twitter", 0, naive_early),
    Post("$GME bullish", "twitter", 0, naive_late),
    Post("$GME bullish", "reddit", 0, naive_ahead),
    Post("$GME bullish", "twitter", 50, aware_late),
    Post("$GME buy", "twitter", 50, "soon"),
    Post("$GME buy", "reddit", 0, "") }

InitVolume ==
  /\ ticker_list = default_ticker_list
  /\ known_tickers = Range(ticker_list)
  /\ hash_order = <<"GME">>
  /\ config = Config(1, 1, 0)
  /\ Constructed

\* an hour passes before the posts are collected
Wait ==
  /\ outcome = "idle"
  /\ posts = <<>>
  /\ clock < MaxClock
  /\ clock' = clock + 1
  /\ UNCHANGED <<ticker_list, known_tickers, hash_order, config, posts, outcome,
                 called, calls, ticker_posts, filtered_ticker_posts, volume_scores,
                 sentiment_scores, results, previous, candidate, verdict, raw_scores,
                 normalized, unit_vars, task_vars>>

\* one more post of the ticker
CollectTimed ==
  /\ outcome = "idle"
  /\ volume_task = IdleTask
  /\ Len(posts) < MaxVolumePosts
  /\ \E post \in VolumePool : posts' = Append(posts, post)
  /\ UNCHANGED <<ticker_list, known_tickers, hash_order, clock, config, outcome,
                 called, calls, ticker_posts, filtered_ticker_posts, volume_scores,
                 sentiment_scores, results, previous, candidate, verdict, raw_scores,
                 normalized, unit_vars, task_vars>>

\* the Volume Scorer is started on the group {'GME': posts}
StartVolume ==
  /\ posts # <<>>
  /\ volume_task = IdleTask
  /\ shared_group' = <<[ticker |-> "GME", posts |-> posts]>>
  /\ volume_task' = [pc |-> "metrics", phase |-> 1, k |-> 1, maps |-> NoMaps,
                     final_scores |-> <<>>]
  /\ UNCHANGED sentiment_task
  /\ UNCHANGED <<ticker_list, known_tickers, hash_order, clock, config, posts, outcome,
                 called, calls, ticker_posts, filtered_ticker_posts, volume_scores,
                 sentiment_scores, results, previous, candidate, verdict, raw_scores,
                 normalized, unit_vars>>

NextVolume == Wait \/ CollectTimed \/ StartVolume \/ VolumeStep \/ AnalyzeTrend

SpecVolume == InitVolume /\ [][NextVolume]_vars

(***************************************************************************)
(* The Sentiment Scorer on the posts of one ticker: the context sentiment  *)
(* of a ticker and one ticker's entry of the comprehensive score, under    *)
(* the default source weights and under configured ones.                   *)
(***************************************************************************)
MaxSentimentPosts == 2

\* thirty characters without sentiment
Gap == "yesterday yesterday yesterday "

\* two occurrences of the ticker more than 100 characters apart
FarApart == "$GME crash " \o Gap \o Gap \o Gap \o Gap \o "bullish $GME"

SentimentPool ==
  { Post("$GME crash", "reddit", 0, naive_early),
    Post("gme bullish $GME", "twitter", 0, naive_late),
    Post("$AMC buy", "twitter", 0, ""),
    Post(FarApart, "reddit", 0, naive_late),
    Post("$GME good", "stocktwits", 0, "") }

SentimentTickers == {"GME", "gme", "TSLA"}

\* config['source_weights'] as a caller may set it
ConfiguredSourceWeights == [twitter |-> 2000, reddit |-> 500]

InitSentiment ==
  /\ ticker_list = default_ticker_list
  /\ known_tickers = Range(ticker_list)
  /\ hash_order = <<"GME">>
  /\ config \in { Config(1, 1, 0),
                   [Config(1, 1, 0) EXCEPT !.source_weights = ConfiguredSourceWeights] }
  /\ Constructed

\* one more post handed to the scorer
CollectMention ==
  /\ outcome = "idle"
  /\ Len(posts) < MaxSentimentPosts
  /\ \E post \in SentimentPool : posts' = Append(posts, post)
  /\ UNCHANGED <<ticker_list, known_tickers, hash_order, clock, config, outcome,
                 called, calls, ticker_posts, filtered_ticker_posts, volume_scores,
                 sentiment_scores, results, previous, candidate, verdict, raw_scores,
                 normalized, unit_vars, task_vars>>

\* one call of calculate_ticker_context_sentiment(posts, ticker)
ScoreContext ==
  /\ outcome = "idle"
  /\ outcome' = "context"
  /\ \E t \in SentimentTickers :
       /\ ticker_arg' = t
       /\ sentiment_result' = calculate_ticker_context_sentiment(posts, t)
  /\ UNCHANGED <<ticker_list, known_tickers, hash_order, clock, config, posts,
                 called, calls, ticker_posts, filtered_ticker_posts, volume_scores,
                 sentiment_scores, results, previous, candidate, verdict, raw_scores,
                 normalized, task_vars>>
  /\ UNCHANGED <<summary_arg, summary_result, text_arg, keyword_result, trend_result,
                 context_result, modifier_args, modifier_result, recency_result,
                 extract_result>>

\* calculate_comprehensive_sentiment_score({ticker: posts}): the entry of the ticker
ScoreTicker ==
  /\ outcome = "idle"
  /\ posts # <<>>
  /\ outcome' = "entry"
  /\ \E t \in SentimentTickers :
       /\ ticker_arg' = t
       /\ sentiment_result' = TickerSentiment(posts, t)
  /\ UNCHANGED <<ticker_list, known_tickers, hash_order, clock, config, posts,
                 called, calls, ticker_posts, filtered_ticker_posts, volume_scores,
                 sentiment_scores, results, previous, candidate, verdict, raw_scores,
                 normalized, task_vars>>
  /\ UNCHANGED <<summary_arg, summary_result, text_arg, keyword_result, trend_result,
                 context_result, modifier_args, modifier_result, recency_result,
                 extract_result>>

NextSentiment == CollectMention \/ ScoreContext \/ ScoreTicker

SpecSentiment == InitSentiment /\ [][NextSentiment]_vars

(***************************************************************************)
(* TickerParser.extract_tickers_from_text on its own: a parser is          *)
(* constructed over a ticker list, a text is written word by word and its  *)
(* tickers are extracted.                                                  *)
(***************************************************************************)
MaxCryptoWords == 2

\* the words a text is written from: the common crypto codes, a code in
\* lower case, a code before a comma, a pair, a cashtag and a plain word
CryptoVocabulary == CommonCrypto \cup {"eth", "BTC,", "DOGEUSD", "$GME", "hold"}

\* the iteration orders of the process: the codes as the pattern lists them,
\* GME first or last
CryptoOrders ==
  LET listed == <<"BTC", "ETH", "ADA", "DOT", "LINK", "LTC", "XRP", "BCH", "BNB", "SOL",
                  "DOGE", "SHIB">>
  IN { <<"GME">> \o listed, [ k \in 1..Len(listed) |-> listed[Len(listed) + 1 - k] ] \o <<"GME">> }

InitCrypto ==
  /\ ticker_list \in { default_ticker_list, <<>>, TickerFile(KnownListThreshold),
                       TickerFile(KnownListThreshold + 1) }
  /\ known_tickers = Range(ticker_list)
  /\ hash_order \in CryptoOrders
  /\ config = Config(1, 1, 0)
  /\ Constructed

\* one more word of the text
WriteCode ==
  /\ outcome = "idle"
  /\ Len(Split(text_arg)) < MaxCryptoWords
  /\ \E word \in CryptoVocabulary :
       text_arg' = IF text_arg = "" THEN word ELSE text_arg \o " " \o word
  /\ UNCHANGED <<ticker_list, known_tickers, hash_order, clock, config, posts, outcome,
                 called, calls, ticker_posts, filtered_ticker_posts, volume_scores,
                 sentiment_scores, results, previous, candidate, verdict, raw_scores,
                 normalized, task_vars>>
  /\ UNCHANGED <<summary_arg, summary_result, keyword_result, ticker_arg, trend_result,
                 context_result, modifier_args, modifier_result, recency_result,
                 sentiment_result, extract_result>>

\* one call of extract_tickers_from_text(text)
ExtractFromText ==
  /\ outcome = "idle"
  /\ outcome' = "returned"
  /\ extract_result' = extract_tickers_from_text(text_arg)
  /\ UNCHANGED <<ticker_list, known_tickers, hash_order, clock, config, posts,
                 called, calls, ticker_posts, filtered_ticker_posts, volume_scores,
                 sentiment_scores, results, previous, candidate, verdict, raw_scores,
                 normalized, task_vars>>
  /\ UNCHANGED <<summary_arg, summary_result, text_arg, keyword_result, ticker_arg,
                 trend_result, context_result, modifier_args, modifier_result,
                 recency_result, sentiment_result>>

NextCrypto == WriteCode \/ ExtractFromText

SpecCrypto == InitCrypto /\ [][NextCrypto]_vars

(***************************************************************************)
(* Properties of calculate_hype_scores (specification Spec)                *)
(***************************************************************************)
\* what two result lists are compared on: every field but 'timestamp'
Scores(list) ==
  [ i \in DOMAIN list |->
      [ticker |-> list[i].ticker, rank |-> list[i].rank,
       hype_score |-> list[i].hype_score, volume_score |-> list[i].volume_score,
       sentiment_score |-> list[i].sentiment_score] ]

\* C1: for a fixed post list and a fixed configuration, two calls made at
\* whatever wall-clock times return the same tickers with the same ranks and
\* the same hype, volume and sentiment scores.  The batch and the
\* configuration never change between the last two calls; the two calls
\* compared here even run in the same process.
C1_SameScoresAtAnyTime ==
  (/\ outcome = "returned"
   /\ previous.outcome = "returned"
   /\ previous.hash_order = called.hash_order)
    => Scores(results) = Scores(previous.results)

\* the confidence filter would drop this entry of the filtered group
DroppedByConfidence(e) ==
  calculate_ticker_context_sentiment(e.posts, e.ticker).confidence
    < config.min_sentiment_confidence

\* the four cases in which there is nothing to rank
NothingToRank ==
  \/ posts = <<>>
  \/ ticker_posts = <<>>
  \/ filtered_ticker_posts = <<>>
  \/ \A e \in Range(filtered_ticker_posts) : DroppedByConfidence(e)

\* C2: when the post list is empty, or no post yields a valid ticker, or no
\* ticker reaches the minimum mention count, or the confidence filter drops
\* every remaining ticker, the call returns an empty list and does not raise.
C2_EmptyListWithoutRaising ==
  (outcome # "idle" /\ NothingToRank) => (outcome = "returned" /\ results = <<>>)

\* C3: whatever mixture of missing, unparsable, timezone-aware and
\* timezone-naive timestamps the posts of a ticker carry, the call completes
\* and returns a result list: it never ends by raising.
C3_NoExceptionForTimestamps == outcome # "raised"

\* the tickers that passed the mention filter and the confidence filter
Survivors ==
  { t \in DOMAIN sentiment_scores :
      sentiment_scores[t].confidence >= config.min_sentiment_confidence }

\* the final hype score of a ticker of the last call, while the clock still
\* reads what it read during the call
HypeOf(t) ==
  Result(filtered_ticker_posts, t, volume_scores,
         get_volume_metrics(filtered_ticker_posts), sentiment_scores).hype_score

Listed == { results[i].ticker : i \in DOMAIN results }

\* C4: the returned list is the first min(topN, survivors) entries of the
\* surviving tickers sorted by final hype score, descending: never longer
\* than topN, the entry at position i (1-based) has rank i, scores do not
\* increase down the list, and no survivor left out scores higher than a
\* listed one.
C4_RankedTopN ==
  outcome = "returned" =>
    /\ Len(results) = Min(config.top_n_tickers, Cardinality(Survivors))
    /\ Len(results) <= config.top_n_tickers
    /\ \A i \in DOMAIN results : results[i].rank = i /\ results[i].ticker \in Survivors
    /\ \A i, j \in DOMAIN results :
         i < j => /\ results[i].hype_score >= results[j].hype_score
                  /\ results[i].ticker # results[j].ticker
    /\ called.clock = clock =>
         /\ \A i \in DOMAIN results : results[i].hype_score = HypeOf(results[i].ticker)
         /\ \A t \in Survivors \ Listed :
              \A i \in DOMAIN results : results[i].hype_score >= HypeOf(t)

\* a call that cut a lower-scored survivor off the list
C4_Witness ==
  /\ outcome = "returned"
  /\ called.clock = clock
  /\ Len(results) = config.top_n_tickers
  /\ \E t \in Survivors \ Listed : HypeOf(t) < results[Len(results)].hype_score

Tied(list) ==
  \E i, j \in DOMAIN list : i # j /\ list[i].hype_score = list[j].hype_score

\* C5: when surviving tickers tie on the final hype score, running the call
\* again on the same input gives every tied ticker the same rank as before.
\* The two calls compared read the same clock.
C5_TiesKeepTheirRanks ==
  (/\ outcome = "returned"
   /\ previous.outcome = "returned"
   /\ previous.clock = called.clock
   /\ Tied(results))
    => \A i \in DOMAIN results :
         \E j \in DOMAIN previous.results :
           /\ previous.results[j].ticker = results[i].ticker
           /\ previous.results[j].rank = results[i].rank

\* the number of posts of the batch that mention t
Mentions(t) ==
  Cardinality({ i \in DOMAIN posts : t \in ExtractedTickers(posts[i].text) })

\* C6: every listed ticker has mention_count >= minMentions, a ticker that
\* fewer than minMentions posts mention is never listed, and the mention
\* filter keeps a ticker with exactly minMentions mentions.
C6_MinimumMentions ==
  /\ outcome = "returned" =>
       /\ \A i \in DOMAIN results :
            /\ results[i].mention_count >= config.min_mentions
            /\ results[i].mention_count = Mentions(results[i].ticker)
       /\ \A t \in TickerUniverse : Mentions(t) < config.min_mentions => t \notin Listed
  /\ outcome # "idle" =>
       \A t \in TickerUniverse :
         Mentions(t) = config.min_mentions => t \in KeySet(filtered_ticker_posts)

\* a listed ticker with exactly minMentions mentions, another ticker short of it
C6_Witness ==
  /\ outcome = "returned"
  /\ config.min_mentions > 1
  /\ \E i \in DOMAIN results : results[i].mention_count = config.min_mentions
  /\ \E t \in TickerUniverse : Mentions(t) > 0 /\ Mentions(t) < config.min_mentions

\* two post sequences with the same length, engagement scores and timestamps
SameShape(a, b) ==
  /\ Len(a) = Len(b)
  /\ \A i \in DOMAIN a :
       /\ a[i].engagement_score = b[i].engagement_score
       /\ a[i].timestamp = b[i].timestamp

\* C8: of two tickers scored together whose post sequences have the same
\* counts, engagement scores and timestamps, the one whose posts come from
\* two distinct sources has a strictly higher composite volume score than the
\* one whose posts come from a single source (default source weights).
C8_TwoSourcesScoreHigher ==
  \A a, b \in DOMAIN volume_scores :
    (/\ SameShape(PostsOf(filtered_ticker_posts, a), PostsOf(filtered_ticker_posts, b))
     /\ Cardinality(SourcesOf(PostsOf(filtered_ticker_posts, a))) = 2
     /\ Cardinality(SourcesOf(PostsOf(filtered_ticker_posts, b))) = 1)
      => volume_scores[a] > volume_scores[b]

\* min-max normalization of one ticker's value within a sub-metric map
MinMax(metric, t) ==
  LET values == { metric[u] : u \in DOMAIN metric }
      hi == CHOOSE v \in values : \A w \in values : w <= v
      lo == CHOOSE v \in values : \A w \in values : w >= v
  IN IF hi = lo THEN Scale ELSE ((metric[t] - lo) * Scale) \div (hi - lo)

Multiplier(t) ==
  Scale + 200 * (Cardinality(SourcesOf(PostsOf(filtered_ticker_posts, t))) - 1)

\* C10: the composite volume score of each ticker is
\* (0.20 nRaw + 0.25 nWeighted + 0.25 nTimeWeighted + 0.15 nVelocity
\*  + 0.15 nSpike) * (1 + 0.2 (distinct sources - 1)); it lies between 0 and
\* that multiplier, and equals the multiplier when one ticker is scored.
C10_CompositeVolume ==
  \A t \in DOMAIN volume_scores :
    /\ 0 <= volume_scores[t] /\ volume_scores[t] <= Multiplier(t)
    /\ Cardinality(DOMAIN volume_scores) = 1 => volume_scores[t] = Multiplier(t)
    /\ called.clock = clock =>
         volume_scores[t] =
           Mul(Mul(MinMax(calculate_raw_volume(filtered_ticker_posts), t), 200)
                 + Mul(MinMax(calculate_weighted_volume(filtered_ticker_posts), t), 250)
                 + Mul(MinMax(calculate_time_weighted_volume(filtered_ticker_posts), t), 250)
                 + Mul(MinMax(calculate_velocity_score(filtered_ticker_posts), t), 150)
                 + Mul(MinMax(calculate_spike_detection(filtered_ticker_posts), t), 150),
               Multiplier(t))

\* a two-source ticker scored strictly inside its range
C10_Witness ==
  /\ outcome # "idle"
  /\ called.clock = clock
  /\ \E t \in DOMAIN volume_scores :
       /\ Multiplier(t) > Scale
       /\ 0 < volume_scores[t] /\ volume_scores[t] < Multiplier(t)

(***************************************************************************)
(* Properties of is_valid_ticker (specification SpecValid)                 *)
(***************************************************************************)
\* the rule as a function of the candidate and of the size the list counts as
ValidityRule(c, size) ==
  IF Len(c) < 2 \/ Len(c) > 5 THEN FALSE
  ELSE IF \E i \in 1..Len(c) : Char(c, i) \notin LetterChars THEN FALSE
  ELSE IF c \in exclude_words \cup common_false_positives THEN FALSE
  ELSE IF size > 100 THEN c \in Range(ticker_list)
  ELSE TRUE

C9_Normalized ==
  outcome = "returned" =>
    LET values == { raw_scores[t] : t \in DOMAIN raw_scores }
    IN /\ DOMAIN normalized = DOMAIN raw_scores
       /\ \A t \in DOMAIN normalized : 0 <= normalized[t] /\ normalized[t] <= Scale
       /\ Cardinality(values) > 1 =>
            LET hi == CHOOSE v \in values : \A w \in values : w <= v
                lo == CHOOSE v \in values : \A w \in values : w >= v
            IN \A t \in DOMAIN raw_scores :
                 /\ normalized[t] = ((raw_scores[t] - lo) * Scale) \div (hi - lo)
                 /\ raw_scores[t] = lo => normalized[t] = 0
                 /\ raw_scores[t] = hi => normalized[t] = Scale
       /\ Cardinality(values) = 1 => \A t \in DOMAIN raw_scores : normalized[t] = Scale
       /\ raw_scores = <<>> => normalized = <<>>

\* three tickers normalized, one of them strictly between the extremes
C9_Witness ==
  /\ outcome = "returned"
  /\ Cardinality(DOMAIN raw_scores) = 3
  /\ \E t \in DOMAIN normalized : 0 < normalized[t] /\ normalized[t] < Scale


(***************************************************************************)
(* Properties of calculate_keyword_sentiment (specification SpecKeyword)   *)
(***************************************************************************)
\* the tokens the keyword scan runs over
ScannedWords == Split(Lower(clean_for_sentiment_analysis(text_arg)))

\* the positions of the sentiment keywords among the tokens
KeywordAt(words) ==
  { i \in DOMAIN words : words[i] \in DOMAIN positive_keywords \cup DOMAIN negative_keywords }

\* a negator token stands at most 3 tokens before or after position i
NegatorNear(words, i) ==
  \E j \in DOMAIN words : Abs(j - i) <= 3 /\ words[j] \in negators

\* the negators at most 3 tokens away from position i
NegatorsNear(words, i) ==
  { j \in DOMAIN words : Abs(j - i) <= 3 /\ words[j] \in negators }

\* no intensifier or diminisher stands at most 3 tokens away from position i
PlainNear(words, i) ==
  \A j \in DOMAIN words :
    Abs(j - i) <= 3 => words[j] \notin DOMAIN intensifiers \cup DOMAIN diminishers

\* C11: when every sentiment keyword of the text is a positive keyword with a
\* negator within 3 tokens, the text scores non-positive (so 'not bullish at
\* all' does); when every one is a negated negative keyword, it scores
\* non-negative; a single negated keyword without intensifier or diminisher
\* contributes its weight with the sign flipped and scaled by 0.8, once,
\* however many negators are in the window.
C11_NegatedKeyword ==
  outcome = "returned" =>
    LET words == ScannedWords
        at == KeywordAt(words)
    IN /\ (/\ at # {}
           /\ \A i \in at : words[i] \in DOMAIN positive_keywords /\ NegatorNear(words, i))
            => keyword_result <= 0
       /\ (/\ at # {}
           /\ \A i \in at : words[i] \in DOMAIN negative_keywords /\ NegatorNear(words, i))
            => keyword_result >= 0
       /\ \A i \in at :
            (at = {i} /\ NegatorNear(words, i) /\ PlainNear(words, i))
              => keyword_result =
                   -Mul((positive_keywords @@ negative_keywords)[words[i]], 800)
       /\ text_arg = "not bullish at all" => keyword_result <= 0

\* a keyword with two negators in its window has been scored
C11_Witness ==
  /\ outcome = "returned"
  /\ \E i \in KeywordAt(ScannedWords) :
       /\ KeywordAt(ScannedWords) = {i}
       /\ Cardinality(NegatorsNear(ScannedWords, i)) >= 2
  /\ keyword_result < 0


(***************************************************************************)
(* Properties of calculate_sentiment_trend (specification SpecTrend)       *)
(***************************************************************************)
\* the posts of the call whose timestamp parses
Parsable == { i \in DOMAIN posts : ParseTimestamp(posts[i]).ok }

\* the earliest and the latest parsable timestamp
Earliest == CHOOSE x \in { Instant(posts[i]) : i \in Parsable } :
              \A i \in Parsable : x <= Instant(posts[i])

Latest == CHOOSE x \in { Instant(posts[i]) : i \in Parsable } :
            \A i \in Parsable : x >= Instant(posts[i])

\* the posts at or before the midpoint of the time range, and those after it
EarlyHalf == SelectSeq(posts, LAMBDA post :
               ParseTimestamp(post).ok /\ 2 * Instant(post) <= Earliest + Latest)

LateHalf == SelectSeq(posts, LAMBDA post :
              ParseTimestamp(post).ok /\ 2 * Instant(post) > Earliest + Latest)

\* late context sentiment - early context sentiment
TrendChange ==
  calculate_ticker_context_sentiment(LateHalf, ticker_arg).sentiment_score
    - calculate_ticker_context_sentiment(EarlyHalf, ticker_arg).sentiment_score

\* the classification the trend analysis is to return
TrendAsStated ==
  IF Cardinality(Parsable) < 2 THEN NeutralTrend
  ELSE IF Latest - Earliest < 1 THEN NeutralTrend
  ELSE [trend |-> IF TrendChange > 200 THEN "improving"
                  ELSE IF TrendChange < -200 THEN "declining" ELSE "stable",
        trend_strength |-> Abs(TrendChange)]

\* every early post is keyword-negative, every late post keyword-positive
NegativeThenPositive ==
  /\ Cardinality(Parsable) >= 2
  /\ Latest - Earliest > 1
  /\ \A i \in DOMAIN EarlyHalf : KeywordSentiment(EarlyHalf[i].text) < 0
  /\ \A i \in DOMAIN LateHalf : KeywordSentiment(LateHalf[i].text) > 0

\* C12: the trend analysis returns 'neutral' with strength 0 for fewer than
\* 2 parsable timestamps or a span under 1 hour, and otherwise the
\* classification of late - early context sentiment (over 0.2 improving, under
\* -0.2 declining, else stable; strength the absolute change); a
\* keyword-negative early half followed by a keyword-positive late half is
\* 'improving'.
C12_TrendClassified ==
  outcome # "idle" =>
    /\ outcome = "returned"
    /\ trend_result = TrendAsStated
    /\ NegativeThenPositive => trend_result.trend = "improving"

\* the same, for the calls that return
C12_TrendWhenReturned ==
  outcome = "returned" =>
    /\ trend_result = TrendAsStated
    /\ Parsable # {} => Len(EarlyHalf) >= 1
    /\ (Cardinality(Parsable) >= 2 /\ Latest - Earliest >= 1) => Len(LateHalf) >= 1
    /\ NegativeThenPositive => trend_result.trend = "improving"


(***************************************************************************)
(* Properties of get_scoring_summary (specification Spec)                  *)
(***************************************************************************)
\* sum of mention_count over the summarized results
MentionSum == SumSeq([ i \in DOMAIN summary_arg |-> summary_arg[i].mention_count ])

\* the posts of the batch that mention a ticker
MentioningPosts == { i \in DOMAIN posts : ExtractedTickers(posts[i].text) # {} }

\* every extracted ticker is among the summarized results, and no post
\* mentions two tickers
AllSurviveOneTickerEach ==
  /\ summary_arg = results
  /\ KeySet(ticker_posts) = { results[i].ticker : i \in DOMAIN results }
  /\ \A i \in DOMAIN posts : Cardinality(ExtractedTickers(posts[i].text)) <= 1

\* C13: for every summarized result batch, the empty one included, the
\* summary reports total_tickers = number of results and total_mentions = sum
\* of mention_count; when all tickers survive and no post mentions two
\* tickers, total_mentions is the number of ticker-mentioning posts.
C13_SummaryTotals ==
  summary_result # NoSummary =>
    /\ "total_tickers" \in DOMAIN summary_result
    /\ summary_result.total_tickers = Len(summary_arg)
    /\ "total_mentions" \in DOMAIN summary_result
    /\ summary_result.total_mentions = MentionSum
    /\ AllSurviveOneTickerEach =>
         summary_result.total_mentions = Cardinality(MentioningPosts)

\* the same, for the batches that hold a result
C13_TotalsOfNonEmpty ==
  (summary_result # NoSummary /\ summary_arg # <<>>) =>
    /\ summary_result.total_tickers = Len(summary_arg)
    /\ summary_result.total_mentions = MentionSum
    /\ AllSurviveOneTickerEach =>
         summary_result.total_mentions = Cardinality(MentioningPosts)


Untagged(post) == [ key \in DOMAIN post \ {"mentioned_ticker"} |-> post[key] ]

CopiesFor(t) ==
  LET mentioning == SelectSeq(posts, LAMBDA post : t \in ExtractedTickers(post.text))
  IN [ i \in DOMAIN mentioning |-> [mentioned_ticker |-> t] @@ mentioning[i] ]

\* C16: the extractor's map holds, under every ticker that the text of some
\* post yields, one tagged copy of each such post in input order and nothing
\* else; a post yielding k tickers is under k keys; every key is a valid
\* ticker; a post with empty text or only invalid candidates is under no key.
C16_GroupedByTicker ==
  (outcome = "returned" /\ calls = 1) =>
    /\ KeySet(ticker_posts) = UNION { ExtractedTickers(posts[i].text) : i \in DOMAIN posts }
    /\ Cardinality(KeySet(ticker_posts)) = Len(ticker_posts)
    /\ \A t \in KeySet(ticker_posts) :
         /\ PostsOf(ticker_posts, t) = CopiesFor(t)
         /\ is_valid_ticker(t)
    /\ \A i \in DOMAIN posts :
         /\ Cardinality({ t \in KeySet(ticker_posts) :
                            Untagged(posts[i]) \in
                              { Untagged(c) : c \in Range(PostsOf(ticker_posts, t)) } })
              = Cardinality(ExtractedTickers(posts[i].text))
         /\ posts[i].text \in {"", "the ceo", "$THE $ABCDEF"} =>
              \A t \in KeySet(ticker_posts) :
                \A c \in Range(PostsOf(ticker_posts, t)) : c.text # posts[i].text

\* a list with a post naming a ticker twice, a post naming two tickers and a
\* post naming none has been grouped
C16_Witness ==
  /\ outcome = "returned"
  /\ calls = 1
  /\ \E i, j, k \in DOMAIN posts :
       /\ posts[i].text = "$GME $GME"
       /\ posts[j].text = "$GME $AMC buy"
       /\ posts[k].text = "$THE $ABCDEF"
  /\ Len(ticker_posts) = 2

\* the occurrences of the asked ticker in a text, whatever the case
Occurrences(t) == Cardinality(FindAll(Upper(t), Upper(ticker_arg)))

\* C17: get_ticker_context returns one context slice per occurrence of the
\* ticker in each post's text, matching case-insensitively.
C17_OneSlicePerOccurrence ==
  ticker_arg # "" =>
    Len(context_result) = SumSeq([ i \in DOMAIN posts |-> Occurrences(posts[i].text) ])


(***************************************************************************)
(* Properties of the modifiers (specification SpecModify)                  *)
(***************************************************************************)
\* the base score of the modified ticker
BaseScore ==
  Mul(modifier_args.volume_score, config.volume_weight)
    + Mul(modifier_args.sentiment_data.sentiment_score, config.sentiment_weight)

\* the multiplier of each modifier as stated, in thousandths
StatedMultipliers ==
  LET list == modifier_args.list
      platforms == Cardinality({ list[i].source : i \in DOMAIN list })
      avg == (SumSeq([ i \in DOMAIN list |-> list[i].engagement_score ]) * Scale) \div Len(list)
      velocity == modifier_args.metrics.velocity_per_hour
      ratio == modifier_args.metrics.spike_ratio
  IN [recency |-> calculate_recency_multiplier(list),
      cross_platform |-> Scale + 150 * (platforms - 1),
      engagement |-> Scale + Min(avg \div 100, 500),
      confidence |-> 800 + (4 * modifier_args.sentiment_data.confidence) \div 10,
      velocity |-> IF velocity > 2 * Scale THEN Scale + Min(velocity \div 10, 300) ELSE Scale,
      spike |-> IF 2 * ratio > 3 * Scale THEN Scale + Min((ratio - Scale) \div 5, 250) ELSE Scale]

\* the product of a score and the multipliers of an order
RECURSIVE Product(_, _, _)
Product(score, order, multipliers) ==
  IF order = <<>> THEN score
  ELSE Product(Mul(score, multipliers[Head(order)]), Tail(order), multipliers)

\* the stated multipliers, those of the modifiers in off taken as 1
Without(off) ==
  LET stated == StatedMultipliers
  IN [ modifier \in Modifiers |-> IF modifier \in off THEN Scale ELSE stated[modifier] ]

\* the order of the modifiers in _apply_scoring_modifiers
SourceOrder == <<"recency", "cross_platform", "engagement", "confidence", "velocity", "spike">>

\* the source's order with two modifiers exchanged, and its reverse
Orders ==
  { [ k \in 1..6 |-> SourceOrder[IF k = i THEN j ELSE IF k = j THEN i ELSE k] ] :
      i \in 1..6, j \in 1..6 }
    \cup { [ k \in 1..6 |-> SourceOrder[7 - k] ] }

\* what the configuration in force switches off
ConfiguredOff ==
  { modifier \in Switchable :
      \/ modifier = "recency" /\ ~config.recency_boost
      \/ modifier = "cross_platform" /\ ~config.cross_platform_bonus
      \/ modifier = "engagement" /\ ~config.engagement_multiplier }

\* each multiplication rounds down by less than one thousandth, which the
\* five later multipliers magnify less than seven times
RoundingSlack == 6 * 7

\* C18: the final hype score is the base score volume x volume_weight +
\* sentiment x sentiment_weight times the multipliers of the active
\* modifiers with their stated values, and the order of the multiplications
\* changes the product by no more than the rounding of the arithmetic.
C18_ProductOfActiveModifiers ==
  (outcome = "returned" /\ modifier_args.called) =>
    LET multipliers == Without(ConfiguredOff)
    IN /\ modifier_result = Product(BaseScore, SourceOrder, multipliers)
       /\ \A order \in Orders :
            Abs(Product(BaseScore, order, multipliers) - modifier_result) <= RoundingSlack

\* all six modifiers are active with multipliers other than 1: two
\* platforms, engagement, a velocity over 2 and a spike ratio over 1.5
C18_Witness ==
  /\ outcome = "returned"
  /\ modifier_args.called
  /\ ConfiguredOff = {}
  /\ \A modifier \in Modifiers : StatedMultipliers[modifier] # Scale
  /\ modifier_result # BaseScore

\* C19 as stated: every modifier the configuration asks to switch off, any of
\* the six, acts as a multiplier of 1.
C19_SixSwitches ==
  (outcome = "returned" /\ modifier_args.called) =>
    modifier_result = Product(BaseScore, SourceOrder, Without(modifier_args.switched_off))

\* C19: the recency, cross-platform and engagement modifiers can be switched
\* off independently through configuration and a switched-off one acts as a
\* multiplier of 1; the confidence, velocity and spike modifiers have no
\* switch and are applied under every configuration.
C19_ThreeSwitches ==
  (outcome = "returned" /\ modifier_args.called) =>
    modifier_result =
      Product(BaseScore, SourceOrder, Without(modifier_args.switched_off \cap Switchable))

\* engagement alone is switched off where it would have changed the score
C19_Witness ==
  /\ outcome = "returned"
  /\ modifier_args.called
  /\ modifier_args.switched_off = {"engagement"}
  /\ StatedMultipliers.engagement # Scale
  /\ modifier_result # 0

\* C20: the recency multiplier lies in [0.5, 1.5] whatever the timestamps of
\* the posts are relative to the time of the call, and is exactly 1.0 when
\* no post has a parsable timestamp.
C20_RecencyInRange ==
  outcome = "measured" =>
    /\ 500 <= recency_result
    /\ recency_result <= 1500
    /\ Timestamped(posts) = <<>> => recency_result = Scale

\* the part of C20 that holds: at least 0.5, at most 1.5 when no timestamp
\* lies after the time of the call, 1.0 without a parsable timestamp
C20_RecencyOfPastPosts ==
  outcome = "measured" =>
    /\ 500 <= recency_result
    /\ (\A i \in DOMAIN posts : ParseTimestamp(posts[i]).ok => HoursAgo(posts[i], clock) >= 0)
         => recency_result <= 1500
    /\ Timestamped(posts) = <<>> => recency_result = Scale


(***************************************************************************)
(* Properties of the Volume Scorer's sub-metrics (specification SpecVolume) *)
(***************************************************************************)
\* the Volume Scorer has computed all six maps of the group
Measured == volume_task.pc \in {"combine", "done"}

\* the posts whose timestamp parses
Timed == { i \in DOMAIN posts : ParseTimestamp(posts[i]).ok }

\* the hour buckets that hold a post, and the posts of a bucket
Buckets == { ParseTimestamp(posts[i]).hour : i \in Timed }

InBucket(b) == { i \in Timed : ParseTimestamp(posts[i]).hour = b }

\* the size of the busiest bucket
Busiest ==
  CHOOSE c \in { Cardinality(InBucket(b)) : b \in Buckets } :
    \A b \in Buckets : Cardinality(InBucket(b)) <= c

\* C21: the spike ratio is 0 for a ticker whose parsable timestamps fall into
\* fewer than 2 hour buckets; otherwise it is the count of the busiest bucket
\* over the mean count of the non-empty buckets, which is at least 1 and at
\* most the number of non-empty buckets.
C21_SpikeRatio ==
  Measured =>
    LET ratio == volume_task.maps.spike["GME"]
        n == Cardinality(Buckets)
    IN IF n < 2 THEN ratio = 0
       ELSE /\ ratio = (Busiest * n * Scale) \div Cardinality(Timed)
            /\ ratio >= Scale
            /\ ratio <= n * Scale

\* three timed posts in two buckets, two of them in one: a ratio of 4/3
C21_Witness ==
  /\ Measured
  /\ Cardinality(Buckets) = 2
  /\ Busiest = 2
  /\ volume_task.maps.spike["GME"] > Scale
  /\ volume_task.maps.spike["GME"] < 2 * Scale

\* the posts stamped within the 4 hours before the time of the call
Trailing ==
  { i \in Timed : /\ clock - ParseTimestamp(posts[i]).hour >= 0
                  /\ clock - ParseTimestamp(posts[i]).hour <= 4 }

\* C22: the velocity is the number of posts whose parsable timestamp lies
\* within the 4 hours before the time of the call, divided by 4; older
\* posts, posts stamped after the time of the call and posts without a
\* parsable timestamp are not counted.
C22_VelocityOfTrailingWindow ==
  Measured => volume_task.maps.velocity["GME"] = (Cardinality(Trailing) * Scale) \div 4

\* the part of C22 that holds: posts stamped after the time of the call are
\* counted with those of the window
C22_VelocityCountsLaterPosts ==
  Measured =>
    volume_task.maps.velocity["GME"] =
      (Cardinality({ i \in Timed : clock - ParseTimestamp(posts[i]).hour <= 4 }) * Scale) \div 4


\* the term of post i in the weighted volume
WeightedTerm(i) ==
  Mul(SourceWeight(config.source_weights, posts[i].source), EngagementMultiplier(posts[i]))

\* the term of post i in the time-weighted volume, the decay weight of a post
\* without a parsable timestamp taken as 1
TimeWeightedTerm(i) ==
  IF i \in Timed
  THEN Mul(WeightedTerm(i), Pow(config.time_decay_factor, clock - ParseTimestamp(posts[i]).hour))
  ELSE WeightedTerm(i)

\* the posts with a parsable timestamp, as a group of their own
TimedGroup == <<[ticker |-> "GME", posts |-> Timestamped(posts)]>>

\* C23: a post whose timestamp is missing or unparsable counts in the raw and
\* the weighted volume, enters the time-weighted volume with its weighted
\* term (decay weight 1), and is left out of the velocity count, the spike
\* buckets and the trend's split: these three are what they are for the
\* timed posts alone; no call raises because of such a post.
C23_UntimedPosts ==
  /\ Measured =>
       /\ volume_task.maps.raw["GME"] = Len(posts) * Scale
       /\ volume_task.maps.weighted["GME"] = SumSeq([ i \in DOMAIN posts |-> WeightedTerm(i) ])
       /\ volume_task.maps.time_weighted["GME"] =
            SumSeq([ i \in DOMAIN posts |-> TimeWeightedTerm(i) ])
       /\ volume_task.maps.velocity["GME"] =
            IF Timed = {} THEN 0 ELSE calculate_velocity_score(TimedGroup)["GME"]
       /\ volume_task.maps.spike["GME"] =
            IF Timed = {} THEN 0 ELSE calculate_spike_detection(TimedGroup)["GME"]
  /\ outcome = "returned" =>
       trend_result = IF Timed = {} THEN NeutralTrend
                      ELSE calculate_sentiment_trend(Timestamped(posts), "GME")
  /\ outcome = "raised" => SortRaises(Timestamped(posts))

\* an untimed post with engagement among two posts stamped two hours apart:
\* all maps computed and the trend analysed
C23_Witness ==
  /\ Measured
  /\ outcome = "returned"
  /\ Cardinality(Timed) = 2
  /\ Len(posts) = 3
  /\ \E i \in DOMAIN posts : i \notin Timed /\ posts[i].engagement_score > 0
  /\ trend_result.trend = "improving"
  /\ volume_task.maps.time_weighted["GME"] # volume_task.maps.weighted["GME"]


(***************************************************************************)
(* Properties of calculate_keyword_sentiment on phrases and long texts     *)
(* (specification SpecPhrase)                                              *)
(***************************************************************************)
\* the two-word phrases of the keyword tables
Phrases ==
  { key \in DOMAIN positive_keywords \cup DOMAIN negative_keywords : Len(Split(key)) = 2 }

\* the positions at which a phrase of the tables starts among the words
PhraseAt(words) ==
  { i \in DOMAIN words : i < Len(words) /\ (words[i] \o " " \o words[i + 1]) \in Phrases }

\* C24: the keyword sentiment of every text lies in [-5, +5]; it is the sum
\* of the context-modified keyword scores divided by max(1, wordCount/10)
\* and clamped; it is 0 for the empty text, for a text that cleans to no
\* token and for a text without keyword.
C24_KeywordSentimentRange ==
  outcome = "returned" =>
    LET words == ScannedWords
        total == KeywordSum(words, 1)
        rate == IF Len(words) > 10 THEN (total * 10) \div Len(words) ELSE total
    IN /\ keyword_result >= -5000
       /\ keyword_result <= 5000
       /\ words # <<>> =>
            keyword_result = IF rate > 5000 THEN 5000 ELSE IF rate < -5000 THEN -5000 ELSE rate
       /\ text_arg = "" => keyword_result = 0
       /\ words = <<>> => keyword_result = 0
       /\ (KeywordAt(words) = {} /\ PhraseAt(words) = {}) => keyword_result = 0

\* a text of more than ten words whose keyword sum is over 5 has been scored
\* and the division brought it under 5
C24_Witness ==
  /\ outcome = "returned"
  /\ Len(ScannedWords) > 10
  /\ KeywordSum(ScannedWords, 1) > 5000
  /\ keyword_result < 5000
  /\ keyword_result > 0

\* the tokens of the input text
InputWords == Split(Lower(text_arg))

\* C25: when two adjacent tokens of the input form a phrase of a keyword
\* table, the phrase is matched as a unit before single words and
\* contributes its table weight after context modifiers, both tokens
\* consumed: the score is that of the scan over the input's tokens.
C25_PhraseBeforeSingleWords ==
  (/\ outcome = "returned"
   /\ PhraseAt(InputWords) # {}
   /\ \A i \in DOMAIN InputWords : InputWords[i] \notin Range(noise_words))
    => keyword_result = KeywordScore(InputWords)

\* the part of C25 that holds: a phrase among the tokens the scan runs over
\* is matched as a unit with its table weight and both tokens are consumed
C25_PhraseAmongScannedWords ==
  (outcome = "returned" /\ Len(ScannedWords) = 2 /\ PhraseAt(ScannedWords) = {1})
    => keyword_result = (positive_keywords @@ negative_keywords)[Join(ScannedWords)]


(***************************************************************************)
(* Properties of the Sentiment Scorer (specification SpecSentiment)        *)
(***************************************************************************)
\* the text within 100 characters of the occurrence of ticker_arg at
\* position p (1-based) of a text
WindowAt(post_text, p) ==
  SubSeq(post_text, Max(1, p - 100), Min(Len(post_text), p - 1 + Len(ticker_arg) + 100))

RECURSIVE WindowsFrom(_)
\* one window per occurrence, whatever the case, post by post from post k on
WindowsFrom(k) ==
  IF k > Len(posts) THEN <<>>
  ELSE LET at == Ascending(FindAll(Upper(posts[k].text), Upper(ticker_arg)))
       IN [ j \in DOMAIN at |-> WindowAt(posts[k].text, at[j]) ] \o WindowsFrom(k + 1)

Mean(values) == SumSeq(values) \div Len(values)

\* C26: the context sentiment has score 0 and confidence 0 when the post list
\* is empty or no text contains the ticker; otherwise, over one window of
\* +/-100 characters per occurrence of the ticker (whatever the case, every
\* occurrence of every post), the score is 0.7 x the mean keyword score +
\* 0.3 x 3.0 x the mean polarity and the confidence is 1 / (1 + the standard
\* deviation of the keyword scores + that of the polarities), which lies in
\* (0, 1] and is 1 for a single occurrence.
C26_ContextSentiment ==
  outcome = "context" =>
    LET windows == WindowsFrom(1)
        keyword_scores == [ k \in DOMAIN windows |-> calculate_keyword_sentiment(windows[k]) ]
        polarities == [ k \in DOMAIN windows |-> analyze_text_sentiment(windows[k]) ]
    IN IF windows = <<>>
       THEN sentiment_result.sentiment_score = 0 /\ sentiment_result.confidence = 0
       ELSE /\ sentiment_result.sentiment_score =
                 (7 * Mean(keyword_scores)) \div 10 + (3 * ((3 * Mean(polarities) * Scale) \div Scale)) \div 10
            /\ sentiment_result.confidence =
                 (Scale * Scale) \div
                   (Scale + calculate_std(keyword_scores) + calculate_std(polarities))
            /\ sentiment_result.confidence > 0
            /\ sentiment_result.confidence <= Scale
            /\ Len(windows) = 1 => sentiment_result.confidence = Scale

\* the ticker, asked in lower case, occurs twice in one text more than 100
\* characters apart: two windows that score differently
C26_Witness ==
  /\ outcome = "context"
  /\ ticker_arg = "gme"
  /\ Len(posts) = 1
  /\ Len(WindowsFrom(1)) = 2
  /\ sentiment_result.confidence < Scale
  /\ sentiment_result.confidence > 0

\* the source-weighted mean of the posts' keyword sentiment under a table
WeightedUnder(table) ==
  LET weight(i) == IF posts[i].source \in DOMAIN table THEN table[posts[i].source] ELSE Scale
      total == SumSeq([ i \in DOMAIN posts |-> weight(i) ])
      weighted == SumSeq([ i \in DOMAIN posts |->
                            Mul(calculate_keyword_sentiment(posts[i].text), weight(i)) ])
  IN IF total > 0 THEN Div(weighted, total) ELSE weighted

\* the entry's score with the posts weighted under a table
EntryUnder(table) ==
  LET context == calculate_ticker_context_sentiment(posts, ticker_arg)
      trend == calculate_sentiment_trend(posts, ticker_arg)
      direction == IF trend.trend = "improving" THEN 1
                   ELSE IF trend.trend = "declining" THEN -1 ELSE 0
  IN Mul(context.sentiment_score, 500) + Mul(WeightedUnder(table), 300)
       + Mul(direction * trend.trend_strength, 200)

\* C27: the comprehensive sentiment of a ticker is 0.5 x the context
\* sentiment + 0.3 x the source-weighted mean of the posts' keyword
\* sentiment + 0.2 x direction x trend strength, the source weights being
\* the Volume Scorer's table, the configured one included; the confidence
\* is that of the context sentiment.
C27_ComprehensiveSentiment ==
  outcome = "entry" =>
    /\ sentiment_result.sentiment_score = EntryUnder(config.source_weights)
    /\ sentiment_result.confidence =
         calculate_ticker_context_sentiment(posts, ticker_arg).confidence

\* the part of C27 that holds: the three parts and the confidence, the
\* source weights being twitter 1.0, reddit 1.2, reddit_comment 0.8 and 1.0
\* for any other source whatever the configuration says
C27_SentimentUnderBuiltInWeights ==
  outcome = "entry" =>
    /\ sentiment_result.sentiment_score = EntryUnder(DefaultSourceWeights)
    /\ sentiment_result.confidence =
         calculate_ticker_context_sentiment(posts, ticker_arg).confidence


(***************************************************************************)
(* Properties of the confidence filter (specification Spec)                *)
(***************************************************************************)
\* the tickers that passed the minimum-mentions filter in the last call
Passed == { e.ticker : e \in Range(filtered_ticker_posts) }

\* C28: every ticker that passes the minimum-mentions filter has a sentiment
\* confidence of at least 1/7; under the default floor of 0.1 the confidence
\* filter removes no ticker, and under any floor it removes exactly the
\* tickers whose confidence is below the floor: the list returned holds the
\* first top-N of the others.
C28_ConfidenceFloor ==
  outcome = "returned" =>
    LET kept == { t \in Passed :
                    sentiment_scores[t].confidence >= config.min_sentiment_confidence }
    IN /\ \A t \in Passed : sentiment_scores[t].confidence >= Scale \div 7
       /\ config.min_sentiment_confidence = default_min_sentiment_confidence => kept = Passed
       /\ Listed \subseteq kept
       /\ Cardinality(Listed) = Min(config.top_n_tickers, Cardinality(kept))

\* under the default floor a ticker whose posts disagree, confidence under
\* 0.5, passed the mention filter and is listed
C28_Witness ==
  /\ outcome = "returned"
  /\ config.min_sentiment_confidence = default_min_sentiment_confidence
  /\ \E t \in Passed : /\ sentiment_scores[t].confidence < Scale \div 2
                       /\ t \in Listed


(***************************************************************************)
(* Properties of the bonus modifiers (specification Spec)                  *)
(***************************************************************************)
\* the modifiers that are bonuses
Bonuses == {"cross_platform", "engagement", "velocity", "spike"}

\* the base score the combiner gave a ticker of the last call
BaseOf(t) ==
  Mul(volume_scores[t], config.volume_weight)
    + Mul(sentiment_scores[t].sentiment_score, config.sentiment_weight)

\* the final score of a base score with one bonus absent
ModifiedWithout(absent, base_score, list, metrics, sentiment_data) ==
  LET recent == RecencyBoost(base_score, list)
      crossed == IF absent = "cross_platform" THEN recent
                 ELSE CrossPlatformBonus(recent, list)
      engaged == IF absent = "engagement" THEN crossed ELSE EngagementBoost(crossed, list)
      confident == ConfidenceBoost(engaged, sentiment_data)
      fast == IF absent = "velocity" THEN confident ELSE VelocityBoost(confident, metrics)
  IN IF absent = "spike" THEN fast ELSE SpikeBoost(fast, metrics)

\* the final score of a ticker of the last call with one bonus absent, while
\* the clock still reads what it read during the call
HypeWithout(absent, t) ==
  ModifiedWithout(absent, BaseOf(t), PostsOf(filtered_ticker_posts, t),
                  get_volume_metrics(filtered_ticker_posts)[t], sentiment_scores[t])

\* C29: no bonus modifier (cross-platform, engagement, velocity, spike)
\* lowers a final hype score: for every ticker returned, the final score is
\* at least the final score with that bonus absent.
C29_BonusNeverLowers ==
  (outcome = "returned" /\ clock = called.clock) =>
    \A i \in DOMAIN results : \A bonus \in Bonuses :
      results[i].hype_score >= HypeWithout(bonus, results[i].ticker)

\* the part of C29 that holds: no bonus lowers the final score of a ticker
\* whose base score is not negative
C29_BonusOnNonNegativeBase ==
  (outcome = "returned" /\ clock = called.clock) =>
    \A i \in DOMAIN results : \A bonus \in Bonuses :
      BaseOf(results[i].ticker) >= 0
        => results[i].hype_score >= HypeWithout(bonus, results[i].ticker)


(***************************************************************************)
(* Properties of extract_tickers_from_text (specification SpecCrypto)      *)
(***************************************************************************)
\* the words of the text that was searched
Standalone == Range(Split(text_arg))

\* C30: every code of the common-crypto list that stands as a word of its
\* own in the text is returned by extract_tickers_from_text, unless a
\* known-ticker list of more than 100 entries is configured.
C30_CommonCryptoReturned ==
  (outcome = "returned" /\ Cardinality(known_tickers) <= KnownListThreshold) =>
    \A code \in CommonCrypto \cap Standalone : code \in Range(extract_result)

\* the part of C30 that holds: the codes of the list that the excluded words
\* do not name are returned, and those they name never are
C30_CryptoUnlessExcluded ==
  (outcome = "returned" /\ Cardinality(known_tickers) <= KnownListThreshold) =>
    \A code \in CommonCrypto \cap Standalone :
      code \in Range(extract_result) <=> code \notin exclude_words

=============================================================================
